---------------------------- MODULE Spec2Model ----------------------------
(***************************************************************************)
(* Model of the Maya session event reducer (GameContext.tsx: GameProvider, *)
(* generateGame / handleEvent, cancelGeneration, clearGame) and of the     *)
(* retry executor of the asset generator (utils.js: retryWithBackoff).     *)
(* Further parts: the effect of AgentFlowPanel that keeps the agent cards  *)
(* up to date, and of the asset server the detection of the backend type,  *)
(* the rate limiter, the steps parameter of the workflows and the 3D       *)
(* pipeline of generate_3d_asset.                                          *)
(*                                                                         *)
(* JavaScript strings are sequences of text fragments; payloads that the  *)
(* code inspects character by character are written one character per     *)
(* fragment.  An optional value (null / undefined) is a sequence of length *)
(* 0 or 1.                                                                 *)
(***************************************************************************)
EXTENDS Integers, Sequences, FiniteSets, TLC

VARIABLES
    gameState,        \* React state of GameProvider (GameState)
    realSessionId,    \* React state realSessionId (optional)
    closureSessionId, \* realSessionId as captured by the live handleEvent closure
    handlerLive,      \* generateGame has been called: handleEvent receives events
    pendingRefresh,   \* setTimeout(loadSessionAssets) timers not yet fired
    lastChat,         \* type of the last event forwarded to onChatEvent
    backend,          \* the payloads the backend sends, by event type
    effectDeps,       \* AgentFlowPanel: the dependencies its effect last ran with
    snapshot,         \* history: agent statuses once shown, with their core state
    lastEvent,        \* history: the last operation applied, with its payload
    prevOp,           \* history: operationType before the last operation
    chunkRun,         \* history: code chunks received since the session started
    e2eStep,          \* history: progress along the end-to-end scenario
    pubStep,          \* history: progress along the publisher scenario
    assetRun,         \* history: asset_completed events since the empty asset state
    sent,             \* history: the session ids of the requests sent so far
    firstCaptured,    \* history: the first backend session id captured
    cleared,          \* history: what the state held when clearGame was called
    raised,           \* history: the event whose state updater threw, if any
    rpc,              \* retryWithBackoff: control point
    retries,          \* retryWithBackoff: local retries
    delay,            \* retryWithBackoff: local delay (ms)
    calls,            \* history: how each call of operation() ended, in order
    outcome,          \* retryWithBackoff: how the call ended
    waited,           \* history: wait times (ms) slept by this run
    operationUpdates, \* global.operationUpdates[operationId] (optional list)
    cfg,              \* retryWithBackoff: the arguments of this call
    detectedSpaceType, \* the module variable detectedSpaceType
    detection,        \* the last call of detectSpaceType and its outcome
    rateLimits,       \* the module variable rateLimits: a Map by client key
    clock,              \* Date.clock()
    rateCfg,          \* the limit and windowMs the server calls checkRateLimit with
    rateCall,         \* history: the last call of checkRateLimit
    windows,          \* history: per key, the start of its window and the
                      \* requests admitted in it
    stepsCall,        \* the steps a workflow last sent to its backend
    pipe,             \* one run of the background task of generate_3d_asset
    opLog,            \* global.operationUpdates: per operation id, its entries
    disk,             \* the asset directory: the clock, the running pipeline
                      \* instances and the paths they have written
    asset3d           \* generate_3d_asset: operationCounter, the statuses in
                      \* global.operationUpdates and the responses returned

reducerVars == <<gameState, realSessionId, closureSessionId, handlerLive,
                 pendingRefresh, lastChat, backend>>
historyVars == <<lastEvent, prevOp, chunkRun, e2eStep, pubStep, assetRun,
                 sent, firstCaptured, cleared, raised>>
retryVars   == <<rpc, retries, delay, calls, outcome, waited,
                 operationUpdates, cfg>>
panelVars == <<effectDeps, snapshot>>
clientVars == <<reducerVars, historyVars, panelVars>>
detectVars == <<detectedSpaceType, detection>>
rateVars == <<rateLimits, clock, rateCfg, rateCall, windows>>
toolVars == <<detectVars, rateVars, stepsCall, pipe>>
extraVars == <<opLog, disk, asset3d>>
serverVars == <<retryVars, toolVars, extraVars>>
vars == <<clientVars, serverVars>>

----------------------------------------------------------------------------
(* Bounds of the model *)

MaxContent == 13
MaxAssets == 3
MaxRefresh == 1
MaxLines == 2
MaxRetriesBound == 2
MaxLimit == 2         \* the largest limit of checkRateLimit
MaxWindowMs == 2      \* the longest window of checkRateLimit
MaxNow == 5           \* the clock stops here
MaxRequests == 6      \* calls of checkRateLimit in one behaviour
MaxEnvLen == 3        \* the longest value of MODEL_3D_STEPS
MaxLogEntries == 102  \* entries pushed on the log of one operation
MaxMs == 1            \* the last millisecond of the clock of the asset directory

----------------------------------------------------------------------------
(* JavaScript values *)

None == << >>
Some(x) == <<x>>

JsStr(s) == [type |-> "string", val |-> s]
JsObject == [type |-> "object", val |-> << >>]
typeof(p) == p.type

IsSpace(c) == c \in {" ", "\n", "\t"}
IsDigit(c) == c \in {"0", "1", "2", "3", "4", "5", "6", "7", "8", "9"}

SetMin(S) == CHOOSE x \in S : \A y \in S : x <= y
SetMax(S) == CHOOSE x \in S : \A y \in S : x >= y

\* String.prototype.trim
trim(s) ==
    LET keep == {i \in 1..Len(s) : ~IsSpace(s[i])}
    IN IF keep = {} THEN << >> ELSE SubSeq(s, SetMin(keep), SetMax(keep))

\* String.prototype.includes
includes(s, needle) ==
    \E i \in 1..(Len(s) - Len(needle) + 1) :
        SubSeq(s, i, i + Len(needle) - 1) = needle

\* String.prototype.split('\n')
RECURSIVE splitLines(_)
splitLines(s) ==
    LET nl == {i \in 1..Len(s) : s[i] = "\n"}
    IN IF nl = {} THEN <<s>>
       ELSE <<SubSeq(s, 1, SetMin(nl) - 1)>>
                \o splitLines(SubSeq(s, SetMin(nl) + 1, Len(s)))

\* String.prototype.replace('_', ' '): the first occurrence only
replaceUnderscore(s) ==
    LET at == {i \in 1..Len(s) : s[i] = "_"}
    IN IF at = {} THEN s ELSE [s EXCEPT ![SetMin(at)] = " "]

\* length of the run of whitespace (\s+, greedy) that starts at position i of s
spaceRun(s, i) ==
    SetMax({k \in 0..(IF i > Len(s) THEN 0 ELSE Len(s) - i + 1) :
               \A j \in i..(i + k - 1) : IsSpace(s[j])})

\* length of the run of digits (\d+, greedy) that starts at position i of s
digitRun(s, i) ==
    SetMax({k \in 0..(IF i > Len(s) THEN 0 ELSE Len(s) - i + 1) :
               \A j \in i..(i + k - 1) : IsDigit(s[j])})

IsDash(c) == c \in {"-", "*"}

\* trimmed.match(/^[-*]\s+(.+)/)
matchDash(t) ==
    /\ Len(t) >= 1 /\ IsDash(t[1])
    /\ \E k \in 1..spaceRun(t, 2) : Len(t) >= k + 2 /\ t[k + 2] # "\n"

\* trimmed.match(/^\d+\.\s+(.+)/)
matchNumbered(t) ==
    LET d == digitRun(t, 1)
    IN /\ d >= 1
       /\ Len(t) >= d + 1 /\ t[d + 1] = "."
       /\ \E k \in 1..spaceRun(t, d + 2) :
             Len(t) >= d + k + 2 /\ t[d + k + 2] # "\n"

\* .replace(/^[-*]\s+/, '')
replaceDash(t) ==
    IF Len(t) >= 1 /\ IsDash(t[1]) /\ spaceRun(t, 2) >= 1
    THEN SubSeq(t, 2 + spaceRun(t, 2), Len(t))
    ELSE t

\* .replace(/^\d+\.\s+/, '')
replaceNumbered(t) ==
    LET d == digitRun(t, 1)
    IN IF d >= 1 /\ Len(t) >= d + 1 /\ t[d + 1] = "."
          /\ spaceRun(t, d + 2) >= 1
       THEN SubSeq(t, d + 2 + spaceRun(t, d + 2), Len(t))
       ELSE t

----------------------------------------------------------------------------
(* GameProvider: the state after construction *)

\* const [sessionId] = useState(() => `session_${Date.now()}_...`)
sessionId == <<"session_frontend">>

IdleAgent == [status |-> "idle", currentTask |-> "Standby", lastActivity |-> None]

InitialGameState ==
    [ code |-> None,
      isGenerating |-> FALSE,
      status |-> "idle",
      error |-> None,
      statusBox |-> [phase |-> "idle", bullets |-> << >>, tip |-> None],
      buildingStatus |-> [bullets |-> << >>, isBuilding |-> FALSE],
      codeStream |-> [content |-> << >>, currentType |-> "html",
                      isStreaming |-> FALSE],
      suggestions |-> << >>,
      publisher |-> [status |-> "idle", liveUrl |-> None, siteName |-> None,
                     error |-> None, isPublishing |-> FALSE],
      operationType |-> "idle",
      agents |-> [orchestrator |-> IdleAgent, gameCreator |-> IdleAgent,
                  assetGenerator |-> IdleAgent, publisher |-> IdleAgent],
      assets |-> [assets |-> << >>,
                  isGenerating |-> FALSE,
                  currentCategory |-> None,
                  progress |-> [total_requested |-> 0, total_generated |-> 0,
                                current_step |-> <<"idle">>],
                  error |-> None] ]

----------------------------------------------------------------------------
(* generateGame: the reset at the start of a cycle, and handleEvent *)

PublishEventTypes ==
    {"publish_status", "publish_success", "publish_error", "publish_message"}
GameCreationEventTypes == {"status", "explanation", "code", "features"}
AssetEventTypes ==
    {"asset_session_start", "asset_generating", "asset_completed",
     "asset_session_complete", "asset_error"}

\* a faulty variant: a new cycle starts with no suggestions
generateGameResetDropsSuggestions(prev) ==
    [prev EXCEPT
       !.isGenerating = TRUE,
       !.status = "thinking",
       !.error = None,
       !.statusBox = [phase |-> "analyzing", bullets |-> <<"Starting...">>,
                      tip |-> Some(<<"Analyzing your request...">>)],
       !.buildingStatus = [bullets |-> prev.buildingStatus.bullets,
                           isBuilding |-> FALSE],
       !.codeStream = [content |-> prev.codeStream.content,
                       currentType |-> prev.codeStream.currentType,
                       isStreaming |-> FALSE],
       !.suggestions = << >>,
       !.publisher = [prev.publisher EXCEPT !.isPublishing = FALSE,
                                            !.error = None],
       !.operationType = "idle"]

\* setGameState(prev => ({...prev, isGenerating: true, status: 'thinking', ...}))
generateGameReset(prev) ==
    [prev EXCEPT
       !.isGenerating = TRUE,
       !.status = "thinking",
       !.error = None,
       !.statusBox = [phase |-> "analyzing", bullets |-> <<"Starting...">>,
                      tip |-> Some(<<"Analyzing your request...">>)],
       !.buildingStatus = [bullets |-> prev.buildingStatus.bullets,
                           isBuilding |-> FALSE],
       !.codeStream = [content |-> prev.codeStream.content,
                       currentType |-> prev.codeStream.currentType,
                       isStreaming |-> FALSE],
       !.suggestions = prev.suggestions,
       !.publisher = [prev.publisher EXCEPT !.isPublishing = FALSE,
                                            !.error = None],
       !.operationType = "idle"]

\* a faulty variant: the request carries the captured backend session id
requestSessionIdCaptured(capturedId) ==
    IF capturedId # None THEN capturedId[1] ELSE sessionId

\* mayaAPI.generateGame({prompt, session_id: sessionId, user_id: 'maya_user'}, ...)
requestSessionId(capturedId) == sessionId

\* the catch branch of generateGame: mayaAPI.generateGame rejected
generateGameRejected(prev, message) ==
    [prev EXCEPT
       !.isGenerating = FALSE,
       !.status = "error",
       !.error = Some(message),
       !.suggestions = << >>]

\* a faulty variant: asset events count as game creation
detectOperationTypeAssetsAsGame(prev, type) ==
    IF type \in PublishEventTypes
    THEN [prev EXCEPT !.operationType = "publishing"]
    ELSE IF type \in GameCreationEventTypes \cup AssetEventTypes
    THEN [prev EXCEPT !.operationType = "game_creation"]
    ELSE prev

\* "Detect operation type based on event types"
detectOperationType(prev, type) ==
    IF type \in PublishEventTypes
    THEN [prev EXCEPT !.operationType = "publishing"]
    ELSE IF type \in GameCreationEventTypes
    THEN [prev EXCEPT !.operationType = "game_creation"]
    ELSE prev

\* case 'asset_session_start'
caseAssetSessionStart(prev, sessionData) ==
    [prev EXCEPT
       !.assets.isGenerating = TRUE,
       !.assets.progress =
           [total_requested |-> sessionData.total_assets,
            total_generated |-> 0,
            current_step |-> <<"Starting asset generation session">>],
       !.assets.error = None]

\* case 'asset_generating'
caseAssetGenerating(prev, generatingData) ==
    [prev EXCEPT
       !.assets.currentCategory = Some(generatingData.category),
       !.assets.progress.current_step =
           IF generatingData.status = "starting"
           THEN <<"Generating ">> \o replaceUnderscore(generatingData.category)
                    \o <<"...">>
           ELSE <<"Processing ">> \o replaceUnderscore(generatingData.category)
                    \o <<"...">>]

\* sessionIdToUse = completedData.session_id || realSessionId || sessionId
sessionIdToUse(payloadId, capturedId) ==
    IF payloadId # None THEN payloadId[1]
    ELSE IF capturedId # None THEN capturedId[1]
    ELSE sessionId

previewUrl(sid, filename) ==
    <<"http://localhost:8000/assets/">> \o sid \o <<"/">> \o filename
        \o <<"/preview">>

\* const newAsset: AssetInfo = {...}
newAsset(completedData, capturedId) ==
    [ filename |-> completedData.filename,
      category |-> completedData.category,
      gcs_url |-> completedData.gcs_url,
      preview_url |-> previewUrl(sessionIdToUse(completedData.session_id,
                                                capturedId),
                                 completedData.filename),
      size_bytes |-> completedData.size_bytes,
      timestamp |-> "now",
      status |-> "completed" ]

\* a faulty variant: the new asset goes to the front of the list
caseAssetCompletedPrepends(prev, completedData, capturedId) ==
    [prev EXCEPT
       !.assets.assets = <<newAsset(completedData, capturedId)>>
                             \o prev.assets.assets,
       !.assets.progress.total_generated =
           prev.assets.progress.total_generated + 1,
       !.assets.progress.current_step =
           <<"Completed ">> \o replaceUnderscore(completedData.category)]

\* case 'asset_completed'
caseAssetCompleted(prev, completedData, capturedId) ==
    [prev EXCEPT
       !.assets.assets = Append(prev.assets.assets,
                                newAsset(completedData, capturedId)),
       !.assets.progress.total_generated =
           prev.assets.progress.total_generated + 1,
       !.assets.progress.current_step =
           <<"Completed ">> \o replaceUnderscore(completedData.category)]

\* case 'asset_session_complete'
caseAssetSessionComplete(prev, data) ==
    [prev EXCEPT
       !.assets.isGenerating = FALSE,
       !.assets.progress.total_generated = data.total_generated,
       !.assets.progress.current_step =
           IF data.status = "completed"
           THEN <<"Asset generation completed (",
                  ToString(data.total_generated), "/",
                  ToString(data.total_requested), ")">>
           ELSE <<"Asset generation failed - using text-only mode">>,
       !.assets.error =
           IF data.status = "failed"
           THEN Some(<<"Asset generation failed">>) ELSE None]

\* case 'asset_error'
caseAssetError(prev, errorData) ==
    [prev EXCEPT
       !.assets.isGenerating =
           IF errorData.critical THEN FALSE ELSE prev.assets.isGenerating,
       !.assets.error = Some(errorData.error),
       !.assets.progress.current_step =
           IF errorData.category # None
           THEN <<"Error generating ">> \o errorData.category[1] \o <<": ">>
                    \o errorData.error
           ELSE <<"Asset generation error: ">> \o errorData.error]

\* case 'publish_status'
casePublishStatus(prev, publishStatus) ==
    [prev EXCEPT
       !.publisher = [prev.publisher EXCEPT !.status = publishStatus,
                                            !.isPublishing = TRUE,
                                            !.error = None],
       !.statusBox.phase =
           IF publishStatus = "validating" THEN "analyzing"
           ELSE IF publishStatus = "preparing" THEN "thinking"
           ELSE "generating",
       !.statusBox.tip =
           IF publishStatus = "validating"
           THEN Some(<<"Checking if a game has been created...">>)
           ELSE IF publishStatus = "preparing"
           THEN Some(<<"Game found! Preparing for deployment...">>)
           ELSE Some(<<"Deploying to Firebase hosting...">>)]

\* a faulty variant: the publisher stays busy after the success
casePublishSuccessStaysBusy(prev, successData) ==
    [prev EXCEPT
       !.publisher = [prev.publisher EXCEPT
                        !.status = "published",
                        !.liveUrl = Some(successData.live_url),
                        !.siteName = Some(successData.site_name),
                        !.error = None],
       !.statusBox.phase = "completed",
       !.statusBox.tip = Some(<<"Your game is now live!">>)]

\* case 'publish_success'
casePublishSuccess(prev, successData) ==
    [prev EXCEPT
       !.publisher = [prev.publisher EXCEPT
                        !.status = "published",
                        !.isPublishing = FALSE,
                        !.liveUrl = Some(successData.live_url),
                        !.siteName = Some(successData.site_name),
                        !.error = None],
       !.statusBox.phase = "completed",
       !.statusBox.tip = Some(<<"Your game is now live!">>)]

\* a faulty variant: a failed publish discards the game
casePublishErrorDropsGame(prev, errorType) ==
    [prev EXCEPT
       !.code = None,
       !.codeStream.content = << >>,
       !.publisher = [prev.publisher EXCEPT !.status = "error",
                                            !.isPublishing = FALSE,
                                            !.error = Some(errorType)],
       !.statusBox.phase = "idle",
       !.statusBox.tip = None]

\* case 'publish_error'
casePublishError(prev, errorType) ==
    [prev EXCEPT
       !.publisher = [prev.publisher EXCEPT !.status = "error",
                                            !.isPublishing = FALSE,
                                            !.error = Some(errorType)],
       !.statusBox.phase = "idle",
       !.statusBox.tip = None]

\* case 'status'
caseStatus(prev, status) ==
    [prev EXCEPT
       !.status = status,
       !.statusBox.phase =
           IF status = "thinking" THEN "thinking" ELSE "generating",
       !.statusBox.bullets = << >>]

\* case 'explanation'
caseExplanation(prev) ==
    [prev EXCEPT
       !.statusBox.phase = "outlining",
       !.statusBox.tip = Some(<<"Designing your game concept...">>)]


----------------------------------------------------------------------------
(* handleEvent: suggestions, code_chunk, command, code, error *)

\* the body of the for loop over lines: the content pushed for one line, if any
parseLine(line) ==
    LET trimmed == trim(line)
        content == replaceNumbered(replaceDash(trimmed))
    IN IF (matchDash(trimmed) \/ matchNumbered(trimmed)) /\ content # << >>
       THEN <<content>>
       ELSE << >>

RECURSIVE parseLines(_)
parseLines(lines) ==
    IF lines = << >> THEN << >>
    ELSE parseLine(Head(lines)) \o parseLines(Tail(lines))

\* const parsedSuggestions: string[] after the loop
parsedSuggestions(suggestionsText) == parseLines(splitLines(suggestionsText))

DefaultSuggestions ==
    << <<"Add sound effects">>, <<"Change colors to neon theme">>,
       <<"Increase difficulty">>, <<"Add particle effects">>,
       <<"Create power-ups">>, <<"Add multiplayer mode">> >>

\* a faulty variant: no fallback to the defaults
finalSuggestionsNoFallback(suggestionsText) == parsedSuggestions(suggestionsText)

\* const finalSuggestions = parsedSuggestions.length > 0 ? parsedSuggestions : [...]
finalSuggestions(suggestionsText) ==
    IF Len(parsedSuggestions(suggestionsText)) > 0
    THEN parsedSuggestions(suggestionsText)
    ELSE DefaultSuggestions

\* case 'suggestions'
caseSuggestions(prev, payload) ==
    IF typeof(payload) = "string"
    THEN [prev EXCEPT
            !.suggestions = finalSuggestions(payload.val),
            !.statusBox.phase = "completed",
            !.statusBox.tip =
                Some(<<"Your game is ready! Try the suggestions below.">>)]
    ELSE prev

kw_style == <<"s", "t", "y", "l", "e">>
kw_css == <<"c", "s", "s">>
kw_colorColon == <<"c", "o", "l", "o", "r", ":">>
kw_function == <<"f", "u", "n", "c", "t", "i", "o", "n">>
kw_constSp == <<"c", "o", "n", "s", "t", " ">>
kw_letSp == <<"l", "e", "t", " ">>
kw_addEventListener ==
    <<"a", "d", "d", "E", "v", "e", "n", "t", "L", "i", "s", "t", "e", "n", "e", "r">>
kw_keydown == <<"k", "e", "y", "d", "o", "w", "n">>
kw_click == <<"c", "l", "i", "c", "k">>
kw_backgroundColon == <<"b", "a", "c", "k", "g", "r", "o", "u", "n", "d", ":">>
kw_fontDash == <<"f", "o", "n", "t", "-">>

allBullets ==
    <<"Setting up HTML structure", "Adding CSS styling and animations",
      "Implementing game logic", "Setting up event handlers",
      "Adding interactive features", "Optimizing performance">>

listIncludes(list, x) == \E i \in 1..Len(list) : list[i] = x

pushIfAbsent(list, x) == IF listIncludes(list, x) THEN list ELSE Append(list, x)

\* newBuildingBullets after the three keyword tests
newBuildingBullets(prev, codeContent) ==
    LET b0 == IF ~prev.buildingStatus.isBuilding
              THEN <<allBullets[1]>> ELSE prev.buildingStatus.bullets
        b1 == IF includes(codeContent, kw_style) \/ includes(codeContent, kw_css)
                 \/ includes(codeContent, kw_colorColon)
              THEN pushIfAbsent(b0, allBullets[2]) ELSE b0
        b2 == IF includes(codeContent, kw_function)
                 \/ includes(codeContent, kw_constSp)
                 \/ includes(codeContent, kw_letSp)
              THEN pushIfAbsent(b1, allBullets[3]) ELSE b1
    IN IF includes(codeContent, kw_addEventListener)
          \/ includes(codeContent, kw_keydown) \/ includes(codeContent, kw_click)
       THEN pushIfAbsent(b2, allBullets[4]) ELSE b2

\* "Determine code type for syntax highlighting"
codeType(codeContent) ==
    IF includes(codeContent, kw_function) \/ includes(codeContent, kw_constSp)
       \/ includes(codeContent, kw_addEventListener)
    THEN "js"
    ELSE IF includes(codeContent, kw_colorColon)
            \/ includes(codeContent, kw_backgroundColon)
            \/ includes(codeContent, kw_fontDash)
    THEN "css"
    ELSE "html"

\* if (typeof event.payload === 'string' && event.payload.trim())
chunkAccepted(payload) ==
    typeof(payload) = "string" /\ trim(payload.val) # << >>

\* a faulty variant: every chunk replaces the content
streamContentReplaces(prev, codeContent) == codeContent

\* content: isFirstChunk ? codeContent : prev.codeStream.content + codeContent
streamContent(prev, codeContent) ==
    IF ~prev.codeStream.isStreaming
    THEN codeContent
    ELSE prev.codeStream.content \o codeContent

\* case 'code_chunk'
caseCodeChunk(prev, payload) ==
    IF chunkAccepted(payload)
    THEN [prev EXCEPT
            !.statusBox.phase = "generating",
            !.statusBox.tip = Some(<<"Writing your game code...">>),
            !.buildingStatus = [bullets |-> newBuildingBullets(prev, payload.val),
                                isBuilding |-> TRUE],
            !.codeStream = [content |-> streamContent(prev, payload.val),
                            currentType |-> codeType(payload.val),
                            isStreaming |-> TRUE]]
    ELSE prev

IsWordChar(c) ==
    \/ IsDigit(c) \/ c = "_"
    \/ c \in {"a", "b", "c", "d", "e", "f", "g", "h", "i", "j", "k", "l", "m",
              "n", "o", "p", "q", "r", "s", "t", "u", "v", "w", "x", "y", "z"}

\* event.payload.match(/<(\w+)>([^<]+)</): the matches, as <<start, group 2>>
commandMatches(s) ==
    { m \in (1..Len(s)) \X (1..Len(s)) \X (1..Len(s)) :
        /\ s[m[1]] = "<"
        /\ m[1] < m[2] - 1 /\ s[m[2]] = ">"
        /\ \A j \in (m[1] + 1)..(m[2] - 1) : IsWordChar(s[j])
        /\ m[2] < m[3] - 1 /\ s[m[3]] = "<"
        /\ \A j \in (m[2] + 1)..(m[3] - 1) : s[j] # "<" }

\* case 'command'
caseCommand(prev, payload) ==
    IF typeof(payload) = "string" /\ includes(payload.val, <<"<">>)
       /\ commandMatches(payload.val) # {}
    THEN LET first == SetMin({m[1] : m \in commandMatches(payload.val)})
             m == CHOOSE x \in commandMatches(payload.val) : x[1] = first
         IN [prev EXCEPT
               !.statusBox.tip = Some(SubSeq(payload.val, m[2] + 1, m[3] - 1))]
    ELSE prev

CompletionBullets ==
    <<"HTML structure created", "CSS styling applied",
      "JavaScript logic implemented", "Game mechanics configured",
      "Interactive features added", "Game ready to play!">>

\* a faulty variant: the stream stays open after the final code
caseCodeKeepsStreaming(prev, payload) ==
    [prev EXCEPT
       !.code = Some(payload),
       !.isGenerating = FALSE,
       !.status = "completed",
       !.buildingStatus = [bullets |-> CompletionBullets, isBuilding |-> FALSE]]

\* case 'code'
caseCode(prev, payload) ==
    [prev EXCEPT
       !.code = Some(payload),
       !.isGenerating = FALSE,
       !.status = "completed",
       !.statusBox =
           [phase |-> "suggesting",
            bullets |-> <<"Game generated successfully!",
                          "Ready for testing and modifications",
                          "Try asking for specific changes">>,
            tip |-> Some(<<"Your game is ready to play! What would you like to modify?">>)],
       !.buildingStatus = [bullets |-> CompletionBullets, isBuilding |-> FALSE],
       !.codeStream = [content |-> prev.codeStream.content,
                       currentType |-> prev.codeStream.currentType,
                       isStreaming |-> FALSE]]

\* case 'error'
caseError(prev, payload) ==
    [prev EXCEPT
       !.isGenerating = FALSE,
       !.status = "error",
       !.error = Some(payload),
       !.statusBox = [phase |-> "idle", bullets |-> << >>, tip |-> None],
       !.buildingStatus = [bullets |-> << >>, isBuilding |-> FALSE],
       !.codeStream = [content |-> << >>, currentType |-> "html",
                       isStreaming |-> FALSE],
       !.suggestions = << >>]

\* const handleEvent = (event: SSEEvent) => { ... }: the new gameState
handleEvent(prev, event, capturedId) ==
    LET s == detectOperationType(prev, event.type)
        t == event.type
        p == event.payload
    IN CASE t = "asset_session_start" -> caseAssetSessionStart(s, p)
         [] t = "asset_generating" -> caseAssetGenerating(s, p)
         [] t = "asset_completed" -> caseAssetCompleted(s, p, capturedId)
         [] t = "asset_session_complete" -> caseAssetSessionComplete(s, p)
         [] t = "asset_error" -> caseAssetError(s, p)
         [] t = "publish_status" -> casePublishStatus(s, p)
         [] t = "publish_success" -> casePublishSuccess(s, p)
         [] t = "publish_error" -> casePublishError(s, p)
         [] t = "status" -> caseStatus(s, p)
         [] t = "explanation" -> caseExplanation(s)
         [] t = "suggestions" -> caseSuggestions(s, p)
         [] t = "code_chunk" -> caseCodeChunk(s, p)
         [] t = "command" -> caseCommand(s, p)
         [] t = "code" -> caseCode(s, p)
         [] t = "error" -> caseError(s, p)
         [] OTHER -> s

\* setRealSessionId in 'asset_session_start' and 'asset_completed'
handleRealSessionId(current, event, capturedId) ==
    IF event.type = "asset_session_start" /\ event.payload.session_id # None
    THEN event.payload.session_id
    ELSE IF event.type = "asset_completed" /\ event.payload.session_id # None
            /\ capturedId = None
    THEN event.payload.session_id
    ELSE current

\* payload.category when the payload is a string or an object without it
hasCategory(payload) == "category" \in DOMAIN payload

\* generatingData.category.replace('_', ' ') and
\* completedData.category.replace('_', ' ') inside the state updater: a
\* TypeError when category is undefined
raises(event) ==
    /\ event.type \in {"asset_generating", "asset_completed"}
    /\ ~hasCategory(event.payload)

\* the events handleEvent passes on to onChatEvent
forwardsToChat(event) ==
    \/ event.type \in {"publish_message", "command", "error"}
    \/ /\ event.type \in {"explanation", "features"}
       /\ typeof(event.payload) = "string"
       /\ trim(event.payload.val) # << >>

\* a faulty variant: every asset_session_complete schedules a refresh
schedulesRefreshAlways(event) ==
    event.type \in {"stream_complete", "asset_session_complete"}

\* setTimeout(() => loadSessionAssets(), 1000) in handleEvent
schedulesRefresh(event) ==
    \/ event.type = "stream_complete"
    \/ /\ event.type = "asset_session_complete"
       /\ event.payload.status = "completed"
       /\ event.payload.total_generated > 0

\* cancelGeneration
cancelGenerationState(prev) ==
    [prev EXCEPT
       !.isGenerating = FALSE,
       !.status = "idle",
       !.statusBox = [phase |-> "idle", bullets |-> << >>, tip |-> None],
       !.buildingStatus = [bullets |-> << >>, isBuilding |-> FALSE],
       !.codeStream = [content |-> << >>, currentType |-> "html",
                       isStreaming |-> FALSE],
       !.suggestions = << >>]

\* a faulty variant: the assets of the session survive the reset
clearGameStateKeepsAssets ==
    [InitialGameState EXCEPT !.assets = gameState.assets]

\* clearGame: setGameState of a literal, written out here as in the code
clearGameState ==
    [ code |-> None,
      isGenerating |-> FALSE,
      status |-> "idle",
      error |-> None,
      statusBox |-> [phase |-> "idle", bullets |-> << >>, tip |-> None],
      buildingStatus |-> [bullets |-> << >>, isBuilding |-> FALSE],
      codeStream |-> [content |-> << >>, currentType |-> "html",
                      isStreaming |-> FALSE],
      suggestions |-> << >>,
      publisher |-> [status |-> "idle", liveUrl |-> None, siteName |-> None,
                     error |-> None, isPublishing |-> FALSE],
      operationType |-> "idle",
      agents |->
          [k \in {"orchestrator", "gameCreator", "assetGenerator", "publisher"}
              |-> [status |-> "idle", currentTask |-> "Standby",
                   lastActivity |-> None]],
      assets |-> [assets |-> << >>,
                  isGenerating |-> FALSE,
                  currentCategory |-> None,
                  progress |-> [total_requested |-> 0, total_generated |-> 0,
                                current_step |-> <<"idle">>],
                  error |-> None] ]

\* loadSessionAssets: assetData.assets.map(asset => ({...asset, preview_url, status}))
assetsWithPreviewUrls(assetData, sid) ==
    [i \in 1..Len(assetData) |->
        [ filename |-> assetData[i].filename,
          category |-> assetData[i].category,
          gcs_url |-> assetData[i].gcs_url,
          preview_url |-> previewUrl(sid, assetData[i].filename),
          size_bytes |-> assetData[i].size_bytes,
          timestamp |-> assetData[i].timestamp,
          status |-> "completed" ]]

\* loadSessionAssets: setGameState after response.ok
loadSessionAssetsState(prev, assetData, sid) ==
    [prev EXCEPT !.assets.assets = assetsWithPreviewUrls(assetData, sid)]


----------------------------------------------------------------------------
(* AgentFlowPanel: the effect that keeps gameState.agents up to date *)

\* updateAgentState(agentName, updates) with updates = {status, currentTask,
\* lastActivity}, as updateAgentStatus calls it
updateAgentState(prev, agentName, status, currentTask, lastActivity) ==
    [prev EXCEPT !.agents[agentName] =
        [status |-> status, currentTask |-> currentTask,
         lastActivity |-> lastActivity]]

\* the dependency array of the effect
effectDependencies(state) ==
    [phase |-> state.statusBox.phase, isGenerating |-> state.isGenerating,
     operationType |-> state.operationType,
     publisherStatus |-> state.publisher.status]

\* gameState.statusBox.bullets.some(bullet => bullet.includes('asset'))
bulletsMentionAsset(bullets) ==
    \E i \in 1..Len(bullets) : bullets[i] \in {"Generating game assets"}

\* operationType === 'publishing'
effectPublishing(state) ==
    LET s1 == updateAgentState(state, "orchestrator", "active",
                               "Routing to Publisher", None)
        s2 == updateAgentState(s1, "gameCreator", "completed", "Game Ready",
                               None)
        s3 == updateAgentState(s2, "assetGenerator", "completed",
                               "Assets Ready", None)
        st == state.publisher.status
    IN IF st = "validating"
       THEN updateAgentState(s3, "publisher", "active", "Validating game data",
                Some(<<"Checking if game has been created...">>))
       ELSE IF st = "preparing"
       THEN updateAgentState(s3, "publisher", "active", "Preparing deployment",
                Some(<<"Game found! Preparing for deployment...">>))
       ELSE IF st = "deploying"
       THEN updateAgentState(s3, "publisher", "active", "Uploading to Firebase",
                Some(<<"Uploading files to Firebase hosting...">>))
       ELSE IF st = "published"
       THEN updateAgentState(s3, "publisher", "completed", "Game Live!",
                Some(<<"Game deployed successfully!">>))
       ELSE IF st = "error"
       THEN updateAgentState(s3, "publisher", "error", "Deployment failed",
                Some(<<"Deployment error: ">>
                        \o (IF state.publisher.error = None
                            THEN <<"undefined">>
                            ELSE state.publisher.error[1])))
       ELSE s3

\* operationType === 'game_creation'
effectGameCreation(state) ==
    LET s1 == updateAgentState(state, "orchestrator", "active",
                               "Coordinating agents", None)
        s2 == updateAgentState(s1, "publisher", "idle", "Standby", None)
        ph == state.statusBox.phase
        done == Some(<<"Game code generation completed successfully">>)
    IN IF ~state.isGenerating THEN s2
       ELSE IF ph = "analyzing"
       THEN updateAgentState(
                updateAgentState(s2, "orchestrator", "active",
                    "Analyzing request",
                    Some(<<"Analyzing user request and determining approach">>)),
                "gameCreator", "idle", "Standby", None)
       ELSE IF ph = "thinking"
       THEN LET t1 == updateAgentState(s2, "orchestrator", "active",
                                       "Planning approach", None)
                t2 == updateAgentState(t1, "gameCreator", "active",
                          "Initializing",
                          Some(<<"Planning game concept and structure">>))
            IN IF bulletsMentionAsset(state.statusBox.bullets)
               THEN updateAgentState(t2, "assetGenerator", "active",
                                     "Generating assets", None)
               ELSE t2
       ELSE IF ph = "outlining"
       THEN updateAgentState(s2, "gameCreator", "active", "Designing concept",
                Some(<<"Creating game outline and features">>))
       ELSE IF ph = "generating"
       THEN updateAgentState(s2, "gameCreator", "active", "Writing game code",
                Some(<<"Streaming game code in real-time">>))
       ELSE IF ph = "completed"
       THEN updateAgentState(
                updateAgentState(s2, "orchestrator", "completed",
                                 "Mission Complete", done),
                "gameCreator", "completed", "Game Generated", done)
       ELSE s2

\* the else branch: every agent that is not idle goes back to idle
effectIdle(state) ==
    [state EXCEPT !.agents =
        [k \in DOMAIN state.agents |->
            IF state.agents[k].status # "idle" THEN IdleAgent
            ELSE state.agents[k]]]

\* the body of the useEffect
agentFlowEffect(state) ==
    IF state.operationType = "publishing" THEN effectPublishing(state)
    ELSE IF state.operationType = "game_creation" THEN effectGameCreation(state)
    ELSE effectIdle(state)

\* what the spec calls the core state of the agent panel
coreTriple(state) ==
    [operationType |-> state.operationType, phase |-> state.statusBox.phase,
     publisherStatus |-> state.publisher.status]

agentStatuses(state) ==
    [k \in DOMAIN state.agents |-> state.agents[k].status]

----------------------------------------------------------------------------
(* The retry executor: utils.js retryWithBackoff and calculateWaitTime *)

\* parseInt(g || 0) of an optional capture group
groupOrZero(g) == IF g = None THEN 0 ELSE g[1]

\* A || B for numbers: B when A is 0
orElse(a, b) == IF a # 0 THEN a ELSE b

\* a faulty variant: the parsed duration is used as it is, zero included
calculateWaitTimeNoDefault(errorMessage, defaultDelay) ==
    IF errorMessage.match = None THEN defaultDelay
    ELSE LET g == errorMessage.match[1]
         IN (groupOrZero(g.h) * 3600 + groupOrZero(g.m) * 60
                + groupOrZero(g.s)) * 1000
            + groupOrZero(g.sec) * 1000
            + groupOrZero(g.min) * 60 * 1000
            + groupOrZero(g.hr) * 3600 * 1000

\* calculateWaitTime(errorMessage, defaultDelay); an error message is given with
\* the capture groups of the GPU quota pattern on it (match: None when the
\* pattern does not match)
calculateWaitTime(errorMessage, defaultDelay) ==
    IF errorMessage.match = None THEN defaultDelay
    ELSE LET g == errorMessage.match[1]
         IN orElse((groupOrZero(g.h) * 3600 + groupOrZero(g.m) * 60
                       + groupOrZero(g.s)) * 1000,
            orElse(groupOrZero(g.sec) * 1000,
            orElse(groupOrZero(g.min) * 60 * 1000,
            orElse(groupOrZero(g.hr) * 3600 * 1000,
                   60 * 1000))))

\* the entry pushed on global.operationUpdates[operationId] before a wait
waitingUpdate(retryCount, maxRetries, waitTime) ==
    [status |-> "WAITING", retryCount |-> retryCount, maxRetries |-> maxRetries,
     waitTime |-> waitTime \div 1000]

\* if (operationId && global.operationUpdates[operationId]) push(...)
recordWait(updates, hasOperationId, entry) ==
    IF hasOperationId /\ updates # None
    THEN Some(Append(updates[1], entry))
    ELSE updates

\* while (retries <= maxRetries)
loopCondition(r, maxRetries) == r <= maxRetries

\* a faulty variant: one retry more than asked for
retriesExhaustedLate(r, maxRetries) == r > maxRetries + 1

\* if (retries > maxRetries) throw error
retriesExhausted(r, maxRetries) == r > maxRetries

\* index.js: the wait of the three branches of the catch block
\* (quota with a duration, quota without one, any other error)
quotaWaitTime(errorMessage) ==
    LET g == errorMessage.match[1]
        parsed == IF g.h # None
                  THEN (groupOrZero(g.h) * 3600 + groupOrZero(g.m) * 60
                           + groupOrZero(g.s)) * 1000
                  ELSE IF g.sec # None THEN g.sec[1] * 1000
                  ELSE IF g.min # None THEN g.min[1] * 60 * 1000
                  ELSE IF g.hr # None THEN g.hr[1] * 3600 * 1000
                  ELSE 0
    IN IF parsed <= 0 THEN 60 * 1000 ELSE parsed

indexBranch(errorMessage) ==
    IF errorMessage.match # None THEN "quota"
    ELSE IF errorMessage.mentionsQuota THEN "quota_default"
    ELSE "backoff"

\* the time the run sleeps after a caught error
sleepTime(impl, errorMessage, currentDelay) ==
    IF impl = "utils.js" THEN calculateWaitTime(errorMessage, currentDelay)
    ELSE IF indexBranch(errorMessage) = "quota"
    THEN quotaWaitTime(errorMessage) + 1000
    ELSE IF indexBranch(errorMessage) = "quota_default" THEN 60 * 1000
    ELSE currentDelay

\* the waitTime reported in the WAITING update
reportedWait(impl, errorMessage, currentDelay) ==
    IF impl = "utils.js" THEN calculateWaitTime(errorMessage, currentDelay)
    ELSE IF indexBranch(errorMessage) = "quota" THEN quotaWaitTime(errorMessage)
    ELSE 60 * 1000

\* index.js pushes an update in the two quota branches only
pushesUpdate(impl, errorMessage) ==
    impl = "utils.js" \/ indexBranch(errorMessage) # "backoff"

\* a faulty variant: no doubling after a wait that the error message chose
delayAfterSleepBackoffOnly(impl, errorMessage, currentDelay) ==
    IF indexBranch(errorMessage) = "backoff"
    THEN currentDelay * 2 ELSE currentDelay

\* delay *= 2: always in utils.js, in the backoff branch only in index.js
delayAfterSleep(impl, errorMessage, currentDelay) ==
    IF impl = "utils.js" \/ indexBranch(errorMessage) = "backoff"
    THEN currentDelay * 2 ELSE currentDelay

Returned(result) == Some([kind |-> "returned", value |-> result])
Threw(error) == Some([kind |-> "threw", value |-> error])


----------------------------------------------------------------------------
(* Inputs: the events the backend sends, from small sets *)

Event(t, p) == [type |-> t, payload |-> p]

HtmlOpen == <<"<", "h", "t", "m", "l", ">">>
HtmlClose == <<"<", "/", "h", "t", "m", "l", ">">>

GameCode(html) == [html |-> html, css |-> << >>, js |-> << >>]

\* code chunks: empty, blank, markup, css, js, and a non-string
ChunkPayloads ==
    {JsStr(<< >>), JsStr(<<"\n">>), JsStr(HtmlOpen), JsStr(HtmlClose),
     JsStr(<<"c", "o", "l", "o", "r", ":">>),
     JsStr(<<"l", "e", "t", " ", "x">>), JsObject}

SuggestionLines ==
    { <<>>,
      <<"a">>,
      <<"-", " ", "a">>,
      <<"*", " ", "b">>,
      <<"1", ".", " ", "a">>,
      <<"1", "2", ".", " ", "b">>,
      <<"-", "a">>,
      <<"1", ".", "a">>,
      <<"-", " ">>,
      <<" ", "-", " ", "a", " ">>,
      <<"-", " ", "1", ".", " ", "a">>,
      <<"*", " ", " ", "-", " ", "b">> }

RECURSIVE joinLines(_)
joinLines(ls) ==
    IF Len(ls) = 1 THEN ls[1] ELSE ls[1] \o <<"\n">> \o joinLines(Tail(ls))

LineSeqs(n) == UNION {[1..k -> SuggestionLines] : k \in 1..n}

SuggestionPayloads ==
    {JsStr(joinLines(ls)) : ls \in LineSeqs(MaxLines)} \cup {JsObject}

CompletedPayload(f, sid) ==
    [category |-> <<"primary", "_", "character">>, filename |-> f,
     gcs_url |-> <<"gs://bucket/">> \o f, version |-> "v1", size_bytes |-> 1,
     status |-> "completed", session_id |-> sid]

\* what GET /assets/{sessionId} answers: not ok (None), or the stored assets
ServerAsset(f) ==
    [filename |-> f, category |-> <<"primary", "_", "character">>,
     gcs_url |-> <<"gs://bucket/">> \o f, size_bytes |-> 1, timestamp |-> "stored"]

\* a backend that sends one or two payloads of every event type
SmallBackend ==
    [ status |-> {"thinking", "generating"},
      explanation |-> {JsStr(<<"Building snake">>)},
      features |-> {JsStr(<<"Classic gameplay">>)},
      command |->
          {JsStr(<<"<", "r", "u", "n", ">", "l", "s", "<", "/", "r", "u", "n", ">">>)},
      suggestions |-> {JsStr(<<"-", " ", "a">>)},
      code_chunk |-> {JsStr(HtmlOpen)},
      code |-> {GameCode(HtmlOpen \o HtmlClose)},
      error |-> {JsStr(<<"Failed to generate code.">>)},
      publish_status |-> {"validating", "preparing", "deploying"},
      publish_success |->
          { [live_url |-> <<"https://snake.web.app">>, site_name |-> <<"snake">>,
             message |-> <<"Published">>] },
      publish_error |-> {<<"no_game">>},
      publish_message |-> {JsStr(<<"Publishing your game">>)},
      asset_session_start |->
          { [description |-> <<"assets">>, total_assets |-> 3,
             categories |-> <<"primary_character">>,
             session_id |-> Some(<<"adk_A">>)] },
      asset_generating |->
          { [category |-> <<"interactive", "_", "object">>,
             status |-> "starting"] },
      asset_completed |-> {CompletedPayload(<<"a.png">>, None)},
      asset_session_complete |->
          { [total_generated |-> 2, total_requested |-> 3,
             status |-> "completed"] },
      asset_error |->
          { [error |-> <<"quota">>, category |-> None, critical |-> TRUE] },
      responses |-> {None, Some(<<ServerAsset(<<"a.png">>)>>)} ]

\* a backend that streams code: every code chunk payload, two final codes
StreamBackend ==
    [SmallBackend EXCEPT
       !.code_chunk = ChunkPayloads,
       !.code = {GameCode(HtmlOpen \o HtmlClose), GameCode(HtmlOpen)}]

\* a backend that sends suggestions with the payload p
SuggestBackend(p) == [SmallBackend EXCEPT !.suggestions = {p}]

\* a backend that publishes: two sites, two kinds of failure
PublishBackend ==
    [SmallBackend EXCEPT
       !.publish_success =
           { [live_url |-> <<"https://", n, ".web.app">>, site_name |-> <<n>>,
              message |-> <<"Published">>] : n \in {"snake", "pong"} },
       !.publish_error = {<<"no_game">>, <<"deployment_failed">>}]

Filenames == {<<"a.png">>, <<"b.png">>, <<"c.png">>}

\* a backend that generates assets: three files, a session that ends well or
\* badly
AssetBackend ==
    [SmallBackend EXCEPT
       !.asset_session_start =
           { [description |-> <<"assets">>, total_assets |-> 3,
              categories |-> <<"primary_character">>, session_id |-> None] },
       !.asset_completed = {CompletedPayload(f, None) : f \in Filenames},
       !.asset_session_complete =
           { [total_generated |-> 2, total_requested |-> 3,
              status |-> "completed"],
             [total_generated |-> 0, total_requested |-> 3,
              status |-> "failed"] }]

\* a backend that creates a game, generates an asset and publishes
MixedBackend ==
    [SmallBackend EXCEPT
       !.status = {"generating"},
       !.publish_status = {"validating"},
       !.asset_session_start =
           { [description |-> <<"assets">>, total_assets |-> 3,
              categories |-> <<"primary_character">>, session_id |-> None] },
       !.asset_session_complete =
           { [total_generated |-> 0, total_requested |-> 3,
              status |-> "failed"] }]

\* the same backend when one of its three agents is switched off
WithoutGameCreation(b) ==
    [b EXCEPT !.status = {}, !.explanation = {}, !.features = {}, !.code = {}]
WithoutPublishing(b) ==
    [b EXCEPT !.publish_status = {}, !.publish_success = {},
              !.publish_error = {}, !.publish_message = {}]
WithoutAssets(b) ==
    [b EXCEPT !.asset_session_start = {}, !.asset_generating = {},
              !.asset_completed = {}, !.asset_session_complete = {},
              !.asset_error = {}]
MixedBackends ==
    {WithoutGameCreation(MixedBackend), WithoutPublishing(MixedBackend),
     WithoutAssets(MixedBackend)}

\* errors the operation throws: the message, the capture groups of the GPU
\* quota pattern on it, and whether it mentions "GPU quota" / "quota exceeded"
NoGroups == [h |-> None, m |-> None, s |-> None, sec |-> None, min |-> None,
             hr |-> None]
OperationErrors ==
    { [message |-> <<"socket hang up">>, match |-> None,
       mentionsQuota |-> FALSE],
      [message |-> <<"exceeded your GPU quota, retry in 00:01:30">>,
       match |-> Some([NoGroups EXCEPT !.h = Some(0), !.m = Some(1),
                                       !.s = Some(30)]),
       mentionsQuota |-> TRUE],
      [message |-> <<"exceeded your GPU quota, retry in 00:00:00">>,
       match |-> Some([NoGroups EXCEPT !.h = Some(0), !.m = Some(0),
                                       !.s = Some(0)]),
       mentionsQuota |-> TRUE],
      [message |-> <<"exceeded your GPU quota, wait 0 seconds">>,
       match |-> Some([NoGroups EXCEPT !.sec = Some(0)]),
       mentionsQuota |-> TRUE],
      [message |-> <<"quota exceeded">>, match |-> None,
       mentionsQuota |-> TRUE] }
OperationResults == {"image", "model"}
RetryConfigs ==
    [ impl : {"utils.js", "index.js"},
      maxRetries : 0..MaxRetriesBound,
      initialDelay : {5000, 10000},
      hasOperationId : BOOLEAN ]

\* a backend whose asset events carry session ids, the same or another
SessionBackend ==
    [SmallBackend EXCEPT
       !.asset_session_start =
           { [description |-> <<"assets">>, total_assets |-> 3,
              categories |-> <<"primary_character">>, session_id |-> sid]
               : sid \in {None, Some(<<"adk_A">>), Some(<<"adk_B">>)} },
       !.asset_completed =
           { CompletedPayload(<<"a.png">>, sid)
               : sid \in {None, Some(<<"adk_A">>), Some(<<"adk_B">>)} }]

RejectionMessages == {JsStr(<<"Failed to fetch">>)}


----------------------------------------------------------------------------
(* History variables: what the properties need to know of the past *)

\* a streaming session starts after the operation `since`
ChunkRunStart(since) ==
    [active |-> TRUE, any |-> FALSE, acc |-> << >>, since |-> since]
ChunkRunOff == [active |-> FALSE, any |-> FALSE, acc |-> << >>, since |-> "off"]

\* the code chunks of the streaming session in progress, concatenated
chunkRunAfter(run, event) ==
    IF event.type = "code_chunk"
    THEN IF run.active /\ typeof(event.payload) = "string"
         THEN [active |-> TRUE, any |-> TRUE,
               acc |-> run.acc \o event.payload.val, since |-> run.since]
         ELSE ChunkRunOff
    ELSE IF event.type \in {"code", "error"} THEN ChunkRunStart(event.type)
    ELSE IF run.any THEN ChunkRunOff
    ELSE run

E2EScenario ==
    << Event("status", "thinking"),
       Event("explanation", JsStr(<<"Building snake">>)),
       Event("code_chunk", JsStr(HtmlOpen)),
       Event("code_chunk", JsStr(HtmlClose)),
       Event("code", GameCode(HtmlOpen \o HtmlClose)) >>

sameEvent(a, b) == a.type = b.type /\ a.payload = b.payload

e2eAfter(step, event) ==
    IF step >= 0 /\ step < Len(E2EScenario)
       /\ sameEvent(event, E2EScenario[step + 1])
    THEN step + 1 ELSE -1

PublisherScenario ==
    << Event("publish_status", "validating"),
       Event("publish_status", "preparing"),
       Event("publish_status", "deploying") >>

pubAfter(step, event) ==
    IF step < 3 /\ sameEvent(event, PublisherScenario[step + 1]) THEN step + 1
    ELSE IF step = 3 /\ event.type = "publish_success" THEN 4
    ELSE IF sameEvent(event, PublisherScenario[1]) THEN 1
    ELSE 0

\* the asset state has been left by something other than asset_completed
AssetRunFrom(next) ==
    [active |-> /\ next.assets.assets = << >>
                /\ next.assets.progress.total_generated = 0,
     names |-> << >>,
     before |-> None]

\* the file names of the asset_completed events applied since the asset state
\* was empty, while nothing else has been applied in between; and the asset
\* list and counter as they were before the asset_completed just applied
assetRunAfter(run, prev, event, next) ==
    IF event.type = "asset_completed"
    THEN [active |-> run.active,
          names |-> IF run.active
                    THEN Append(run.names, event.payload.filename)
                    ELSE << >>,
          before |-> Some([assets |-> prev.assets.assets,
                           total_generated |->
                               prev.assets.progress.total_generated])]
    ELSE AssetRunFrom(next)

\* the session ids of the requests sent, and how many (2: two or more)
sentAfter(requests, id) ==
    [ids |-> requests.ids \cup {id},
     n |-> IF requests.n < 2 THEN requests.n + 1 ELSE 2]

History(event, next) ==
    /\ UNCHANGED sent
    /\ firstCaptured' = IF firstCaptured = None THEN realSessionId'
                        ELSE firstCaptured
    /\ cleared' = None
    /\ raised' = None
    /\ lastEvent' = event
    /\ prevOp' = gameState.operationType
    /\ chunkRun' = chunkRunAfter(chunkRun, event)
    /\ e2eStep' = e2eAfter(e2eStep, event)
    /\ pubStep' = pubAfter(pubStep, event)
    /\ assetRun' = assetRunAfter(assetRun, gameState, event, next)

\* what clearGame finds: the assets, and whether a cycle is running
heldBy(state) ==
    [assets |-> Len(state.assets.assets), isGenerating |-> state.isGenerating,
     atDefault |-> state = InitialGameState]

\* an operation that is not an event of the stream
HistoryOfCall(name, next, restartsStream) ==
    /\ sent' = IF name = "generateGame"
               THEN sentAfter(sent, requestSessionId(realSessionId))
               ELSE sent
    /\ UNCHANGED firstCaptured
    /\ cleared' = IF name = "clearGame" THEN Some(heldBy(gameState)) ELSE None
    /\ raised' = None
    /\ lastEvent' = Event(name, None)
    /\ prevOp' = gameState.operationType
    /\ chunkRun' = IF restartsStream THEN ChunkRunStart(name) ELSE ChunkRunOff
    /\ e2eStep' = IF name = "generateGame" THEN 0 ELSE -1
    /\ pubStep' = 0
    /\ assetRun' = AssetRunFrom(next)

----------------------------------------------------------------------------
(* The 3D tools of the asset server: detection of the backend type *)

UpperCase ==
    <<"A", "B", "C", "D", "E", "F", "G", "H", "I", "J", "K", "L", "M", "N", "O",
      "P", "Q", "R", "S", "T", "U", "V", "W", "X", "Y", "Z">>
LowerCase ==
    <<"a", "b", "c", "d", "e", "f", "g", "h", "i", "j", "k", "l", "m", "n", "o",
      "p", "q", "r", "s", "t", "u", "v", "w", "x", "y", "z">>

\* String.prototype.toLowerCase
toLowerCase(s) ==
    [i \in 1..Len(s) |->
        IF \E k \in 1..26 : UpperCase[k] = s[i]
        THEN LowerCase[CHOOSE k \in 1..26 : UpperCase[k] = s[i]]
        ELSE s[i]]

\* SPACE_TYPE
INSTANTMESH == <<"i", "n", "s", "t", "a", "n", "t", "m", "e", "s", "h">>
HUNYUAN3D == <<"h", "u", "n", "y", "u", "a", "n", "3", "d">>
HUNYUAN3D_MINI_TURBO ==
    <<"h", "u", "n", "y", "u", "a", "n", "3", "d", "_", "m", "i", "n", "i",
      "_", "t", "u", "r", "b", "o">>
UNKNOWN == <<"u", "n", "k", "n", "o", "w", "n">>
SPACE_TYPE == <<INSTANTMESH, HUNYUAN3D, HUNYUAN3D_MINI_TURBO, UNKNOWN>>

\* the endpoint signatures of the three backends
InstantMeshEndpoints ==
    { <<"/", "c", "h", "e", "c", "k", "_", "i", "n", "p", "u", "t", "_", "i", "m", "a", "g", "e">>,
      <<"/", "p", "r", "e", "p", "r", "o", "c", "e", "s", "s">>,
      <<"/", "g", "e", "n", "e", "r", "a", "t", "e", "_", "m", "v", "s">>,
      <<"/", "m", "a", "k", "e", "3", "d">> }
MiniTurboEndpoints ==
    { <<"/", "o", "n", "_", "g", "e", "n", "_", "m", "o", "d", "e", "_", "c", "h", "a", "n", "g", "e">>,
      <<"/", "o", "n", "_", "d", "e", "c", "o", "d", "e", "_", "m", "o", "d", "e", "_", "c", "h", "a", "n", "g", "e">>,
      <<"/", "o", "n", "_", "e", "x", "p", "o", "r", "t", "_", "c", "l", "i", "c", "k">> }
Hunyuan3dEndpoints ==
    { <<"/", "s", "h", "a", "p", "e", "_", "g", "e", "n", "e", "r", "a", "t", "i", "o", "n">>,
      <<"/", "g", "e", "n", "e", "r", "a", "t", "i", "o", "n", "_", "a", "l", "l">> }

\* the leading "/" is not part of what index.js looks for in an unnamed endpoint
withoutSlash(signatures) == {SubSeq(e, 2, Len(e)) : e \in signatures}

\* the names that stand for a backend in the name of a space
name_miniTurbo ==
    <<"h", "u", "n", "y", "u", "a", "n", "3", "d", "-", "2", "m", "i", "n",
      "i", "-", "t", "u", "r", "b", "o">>
name_2mini ==
    <<"h", "u", "n", "y", "u", "a", "n", "3", "d", "-", "2", "m", "i", "n",
      "i">>
name_3dmini ==
    <<"h", "u", "n", "y", "u", "a", "n", "3", "d", "m", "i", "n", "i">>
name_hunyuan == <<"h", "u", "n", "y", "u", "a", "n">>
name_instantmesh == <<"i", "n", "s", "t", "a", "n", "t", "m", "e", "s", "h">>

\* Object.values(SPACE_TYPE).includes(manualSpaceType)
isSpaceType(value) == \E i \in 1..Len(SPACE_TYPE) : SPACE_TYPE[i] = value

\* the checks of apiInfo.named_endpoints, in the order of the code
byNamedEndpoints(endpoints) ==
    IF \E e \in endpoints : e \in InstantMeshEndpoints THEN Some(INSTANTMESH)
    ELSE IF \E e \in endpoints : e \in MiniTurboEndpoints
    THEN Some(HUNYUAN3D_MINI_TURBO)
    ELSE IF \E e \in endpoints : e \in Hunyuan3dEndpoints THEN Some(HUNYUAN3D)
    ELSE None

\* index.js: the checks of apiInfo.unnamed_endpoints, by substring
byUnnamedEndpoints(endpoints) ==
    LET some(signatures) ==
            \E e \in endpoints : \E g \in withoutSlash(signatures) :
                includes(e, g)
    IN IF some(InstantMeshEndpoints) THEN Some(INSTANTMESH)
       ELSE IF some(MiniTurboEndpoints) THEN Some(HUNYUAN3D_MINI_TURBO)
       ELSE IF some(Hunyuan3dEndpoints) THEN Some(HUNYUAN3D)
       ELSE None

\* the checks of the lower-cased name of the space, in the order of the code
bySpaceName(modelSpace) ==
    LET lowerSpace == toLowerCase(modelSpace)
    IN IF \/ includes(lowerSpace, name_miniTurbo)
          \/ includes(lowerSpace, name_2mini)
          \/ includes(lowerSpace, name_3dmini)
       THEN Some(HUNYUAN3D_MINI_TURBO)
       ELSE IF includes(lowerSpace, name_hunyuan) THEN Some(HUNYUAN3D)
       ELSE IF includes(lowerSpace, name_instantmesh) THEN Some(INSTANTMESH)
       ELSE None

\* apiInfo && apiInfo.named_endpoints, then the checks of its keys
fromNamed(probe) ==
    IF probe.value = None \/ probe.value[1].named_endpoints = None THEN None
    ELSE byNamedEndpoints(probe.value[1].named_endpoints[1])

\* apiInfo && apiInfo.unnamed_endpoints, then the checks of its keys
fromUnnamed(probe) ==
    IF probe.value = None \/ probe.value[1].unnamed_endpoints = None THEN None
    ELSE byUnnamedEndpoints(probe.value[1].unnamed_endpoints[1])

\* utils.js detectSpaceType: the override of the environment, the endpoints
\* of view_api, the name of the space, an error. A rejected or timed-out
\* view_api leaves the try block before the name is looked at.
detectSpaceTypeUtils(manual, probe, modelSpace) ==
    LET manualSpaceType == IF manual = None THEN None
                           ELSE Some(toLowerCase(manual[1]))
    IN IF /\ manualSpaceType # None
          /\ manualSpaceType[1] # << >>
          /\ isSpaceType(manualSpaceType[1])
       THEN Returned(manualSpaceType[1])
       ELSE IF ~probe.ok THEN Threw(probe.error)
       ELSE IF fromNamed(probe) # None THEN Returned(fromNamed(probe)[1])
       ELSE IF bySpaceName(modelSpace) # None
       THEN Returned(bySpaceName(modelSpace)[1])
       ELSE Threw("Unable to determine space type")

\* index.js detectSpaceType: the name of the space first, then the named and
\* the unnamed endpoints of view_api, an error; it reads no override
detectSpaceTypeIndex(probe, modelSpace) ==
    IF bySpaceName(modelSpace) # None THEN Returned(bySpaceName(modelSpace)[1])
    ELSE IF ~probe.ok THEN Threw(probe.error)
    ELSE IF fromNamed(probe) # None THEN Returned(fromNamed(probe)[1])
    ELSE IF fromUnnamed(probe) # None THEN Returned(fromUnnamed(probe)[1])
    ELSE Threw("Could not determine space type")

detectSpaceType(impl, manual, probe, modelSpace) ==
    IF impl = "utils.js" THEN detectSpaceTypeUtils(manual, probe, modelSpace)
    ELSE detectSpaceTypeIndex(probe, modelSpace)

\* process.env.MODEL_SPACE_TYPE: unset, empty, a type in any case, or a typo
ManualSpaceTypes ==
    { None, Some(<< >>),
      Some(<<"I", "n", "s", "t", "a", "n", "t", "M", "e", "s", "h">>),
      Some(<<"h", "u", "n", "y", "u", "a", "n", "3", "d">>),
      Some(<<"H", "U", "N", "Y", "U", "A", "N", "3", "D", "_", "M", "I", "N", "I", "_", "T", "U", "R", "B", "O">>),
      Some(<<"u", "n", "k", "n", "o", "w", "n">>),
      Some(<<"t", "r", "e", "l", "l", "i", "s">>) }

\* names of spaces: MODEL_SPACE
ModelSpaces ==
    { <<"o", "r", "g", "/", "I", "n", "s", "t", "a", "n", "t", "M", "e", "s", "h">>,
      <<"o", "r", "g", "/", "H", "u", "n", "y", "u", "a", "n", "3", "D", "-", "2">>,
      <<"o", "r", "g", "/", "h", "u", "n", "y", "u", "a", "n", "3", "d", "m", "i", "n", "i">>,
      <<"o", "r", "g", "/", "m", "e", "s", "h">> }

\* keys of named_endpoints a space may declare
ep_make3d == <<"/", "m", "a", "k", "e", "3", "d">>
ep_export ==
    <<"/", "o", "n", "_", "e", "x", "p", "o", "r", "t", "_", "c", "l", "i",
      "c", "k">>
ep_shape ==
    <<"/", "s", "h", "a", "p", "e", "_", "g", "e", "n", "e", "r", "a", "t",
      "i", "o", "n">>
ep_predict == <<"/", "p", "r", "e", "d", "i", "c", "t">>
NamedEndpointSets == SUBSET {ep_make3d, ep_export, ep_shape, ep_predict}

\* keys of unnamed_endpoints a space may declare
ep_unnamed_0 == <<"0">>
ep_unnamed_all ==
    <<"f", "n", "_", "g", "e", "n", "e", "r", "a", "t", "i", "o", "n", "_",
      "a", "l", "l">>
UnnamedEndpointSets == {{ep_unnamed_0}, {ep_unnamed_0, ep_unnamed_all}}

\* what client.view_api(true) raced against the 30 s timer gives: a rejection,
\* null, or an object with or without its two maps of endpoints
ViewApiResults ==
    { [ok |-> FALSE, error |-> e, value |-> None] :
        e \in {"view_api timed out", "fetch failed"} }
    \cup { [ok |-> TRUE, error |-> "", value |-> None] }
    \cup { [ok |-> TRUE, error |-> "",
            value |-> Some([named_endpoints |-> n, unnamed_endpoints |-> u])] :
           n \in {None} \cup {Some(x) : x \in NamedEndpointSets},
           u \in {None} \cup {Some(x) : x \in UnnamedEndpointSets} }

----------------------------------------------------------------------------
(* The reducer as a state machine *)

InitReducer(Backends) ==
    /\ gameState = InitialGameState
    /\ realSessionId = None
    /\ closureSessionId = None
    /\ handlerLive = FALSE
    /\ pendingRefresh = << >>
    /\ lastChat = "none"
    /\ backend \in Backends
    /\ effectDeps = effectDependencies(InitialGameState)
    /\ snapshot = None
    /\ sent = [ids |-> {}, n |-> 0]
    /\ firstCaptured = None
    /\ cleared = None
    /\ raised = None
    /\ lastEvent = Event("init", None)
    /\ prevOp = "idle"
    /\ chunkRun = ChunkRunStart("init")
    /\ e2eStep = -1
    /\ pubStep = 0
    /\ assetRun = AssetRunFrom(InitialGameState)

InitRetry ==
    /\ rpc = "idle"
    /\ retries = 0
    /\ delay = 0
    /\ calls = << >>
    /\ outcome = None
    /\ waited = << >>
    /\ operationUpdates = None
    /\ cfg = [impl |-> "utils.js", maxRetries |-> 3, initialDelay |-> 5000,
              hasOperationId |-> FALSE]

----------------------------------------------------------------------------
(* The rate limiter of the asset server: checkRateLimit *)

\* const clientKey = clientId || 'default'
clientKey(clientId) ==
    IF clientId = None \/ clientId[1] = "" THEN "default" ELSE clientId[1]

ClientIds == {None, Some(""), Some("a"), Some("b")}
ClientKeys == {clientKey(c) : c \in ClientIds}

\* rateLimits.has(clientKey)
hasKey(limits, key) == limits[key] # None

\* now > clientLimit.resetAt
windowExpired(entry, time) == time > entry.resetAt

\* clientLimit.count >= limit
limitReachedLate(entry, limit) == entry.count > limit
limitReached(entry, limit) == entry.count >= limit

\* the value checkRateLimit returns
admits(limits, clientId, limit, time) ==
    LET key == clientKey(clientId)
    IN IF ~hasKey(limits, key) THEN TRUE
       ELSE IF windowExpired(limits[key][1], time) THEN TRUE
       ELSE ~limitReached(limits[key][1], limit)

\* the Map rateLimits after the call
rateLimitsAfter(limits, clientId, limit, windowMs, time) ==
    LET key == clientKey(clientId)
        fresh == Some([count |-> 1, resetAt |-> time + windowMs])
    IN IF ~hasKey(limits, key) THEN [limits EXCEPT ![key] = fresh]
       ELSE IF windowExpired(limits[key][1], time)
       THEN [limits EXCEPT ![key] = fresh]
       ELSE IF limitReached(limits[key][1], limit) THEN limits
       ELSE [limits EXCEPT ![key] =
                Some([count |-> limits[key][1].count + 1,
                      resetAt |-> limits[key][1].resetAt])]

\* history: a window of a key starts with the first request of the key and
\* with the first request after windowMs have passed since its start
windowsAfter(w, key, windowMs, time, admitted) ==
    LET one == IF admitted THEN 1 ELSE 0
    IN IF w[key] = None \/ time > w[key][1].start + windowMs
       THEN [w EXCEPT ![key] = Some([start |-> time, admitted |-> one])]
       ELSE [w EXCEPT ![key] =
                Some([start |-> w[key][1].start,
                      admitted |-> w[key][1].admitted + one])]

InitRateLimits ==
    /\ rateLimits = [k \in ClientKeys |-> None]
    /\ clock = 0
    /\ rateCall = None
    /\ windows = [k \in ClientKeys |-> None]

----------------------------------------------------------------------------
(* The parameters of the 3D workflows: steps *)

\* a JavaScript number: an integer or NaN
Num(n) == [nan |-> FALSE, val |-> n]
NaN == [nan |-> TRUE, val |-> 0]

digitValue(c) ==
    CASE c = "0" -> 0 [] c = "1" -> 1 [] c = "2" -> 2 [] c = "3" -> 3
      [] c = "4" -> 4 [] c = "5" -> 5 [] c = "6" -> 6 [] c = "7" -> 7
      [] c = "8" -> 8 [] c = "9" -> 9

\* the value of a run of decimal digits
RECURSIVE decimal(_)
decimal(digits) ==
    IF digits = << >> THEN 0
    ELSE 10 * decimal(SubSeq(digits, 1, Len(digits) - 1))
         + digitValue(digits[Len(digits)])

\* parseInt(string): leading white space, a sign, the longest run of digits;
\* NaN when there is no digit
parseInt(s) ==
    LET start == 1 + spaceRun(s, 1)
        signed == start <= Len(s) /\ s[start] \in {"-", "+"}
        first == IF signed THEN start + 1 ELSE start
        n == digitRun(s, first)
        magnitude == decimal(SubSeq(s, first, first + n - 1))
    IN IF n = 0 THEN NaN
       ELSE IF signed /\ s[start] = "-" THEN Num(0 - magnitude)
       ELSE Num(magnitude)

\* process.env.MODEL_3D_STEPS ? parseInt(process.env.MODEL_3D_STEPS) : null
model3dSteps(env) ==
    IF env = None \/ env[1] = << >> THEN None ELSE Some(parseInt(env[1]))

\* Math.min and Math.max of two numbers
mathMin(a, b) ==
    IF a.nan \/ b.nan THEN NaN ELSE IF a.val <= b.val THEN a ELSE b
mathMax(a, b) ==
    IF a.nan \/ b.nan THEN NaN ELSE IF a.val >= b.val THEN a ELSE b

\* value || fallback, for a number or null
orDefault(value, fallback) ==
    IF value = None \/ value[1].nan \/ value[1].val = 0 THEN Num(fallback)
    ELSE value[1]

\* processInstantMesh: model3dSteps !== null ? model3dSteps : 75, clamped
stepsInstantMesh(configured) ==
    LET steps == IF configured # None THEN configured[1] ELSE Num(75)
    IN mathMax(Num(30), mathMin(Num(75), steps))

\* processHunyuan3d: Math.max(20, Math.min(50, model3dSteps || 20))
stepsHunyuan3d(configured) ==
    mathMax(Num(20), mathMin(Num(50), orDefault(configured, 20)))

\* processHunyuan3dMiniTurbo: model3dTurboMode || "Turbo"
turboModeOf(model3dTurboMode) ==
    IF model3dTurboMode = None \/ model3dTurboMode[1] = "" THEN "Turbo"
    ELSE model3dTurboMode[1]

defaultSteps(turboMode) ==
    IF turboMode = "Turbo" THEN 5 ELSE IF turboMode = "Fast" THEN 10 ELSE 20

\* processHunyuan3dMiniTurbo: Math.max(1, Math.min(100, model3dSteps || defaultSteps))
stepsMiniTurbo(configured, model3dTurboMode) ==
    mathMax(Num(1),
            mathMin(Num(100),
                    orDefault(configured,
                              defaultSteps(turboModeOf(model3dTurboMode)))))

\* the steps argument of the predict call of each workflow
stepsSent(spaceType, configured, model3dTurboMode) ==
    IF spaceType = INSTANTMESH THEN stepsInstantMesh(configured)
    ELSE IF spaceType = HUNYUAN3D THEN stepsHunyuan3d(configured)
    ELSE stepsMiniTurbo(configured, model3dTurboMode)

\* values of MODEL_3D_STEPS: unset, or up to MaxEnvLen characters
EnvChars == {"-", "0", "4", "9", "a"}
StepsEnvs ==
    {None} \cup
    {Some(s) : s \in UNION {[1..n -> EnvChars] : n \in 0..MaxEnvLen}}

\* values of MODEL_3D_TURBO_MODE
TurboModes == {None, Some("Turbo"), Some("Fast"), Some("Standard")}

----------------------------------------------------------------------------
(* The 3D pipeline: the background task of generate_3d_asset, process3dAsset *)
(* and the workflows of the three backends                                  *)

\* what a backend step gives back: nothing usable, or data with one or two
\* items
StepResults == {"none", "one", "full"}

\* the space types the clients hand to the tools: the three backends, and
\* values process3dAsset has no case for
PipelineSpaceTypes == {INSTANTMESH, HUNYUAN3D, HUNYUAN3D_MINI_TURBO, UNKNOWN}

\* the errors of the pipeline that no retry can cure
FatalErrors == {"unsupported_space_type", "missing_data"}

\* the last argument of the retryWithBackoff call of the step; a step that
\* is not wrapped in retryWithBackoff has none
maxRetriesOf(step) ==
    IF step \in {"textToImage", "/check_input_image", "/preprocess",
                 "/generate_mvs"} THEN Some(3)
    ELSE IF step \in {"/make3d", "/generation_all"} THEN Some(5)
    ELSE None

\* the errors the operation handed to the retry executor throws: in index.js
\* the operation itself tests the space type, in tools.js and the workflows
\* it is only the call of the backend
operationErrorsTypeChecked(step, spaceType) ==
    IF spaceType \notin {INSTANTMESH, HUNYUAN3D, HUNYUAN3D_MINI_TURBO}
    THEN {"unsupported_space_type"} ELSE {"transient"}
operationErrors(step, spaceType) == {"transient"}

PipeIdle ==
    [pc |-> "idle", step |-> "", spaceType |-> UNKNOWN, retries |-> 0,
     fetched |-> {}, stored |-> {}, announced |-> {}, error |-> None,
     sleptAfter |-> {}]

\* saveFileFromData of an artifact fetched from a backend
saveFetched(p, artifact) ==
    [p EXCEPT !.fetched = @ \cup {artifact}, !.stored = @ \cup {artifact}]

\* fs.writeFile of a file the pipeline made itself
writeLocal(p, file) == [p EXCEPT !.stored = @ \cup {file}]

\* notifyResourceListChanged(): every stored file is now announced
notify(p) == [p EXCEPT !.announced = p.stored]

\* the next call of a backend
invoke(p, step) == [p EXCEPT !.pc = "calling", !.step = step, !.retries = 0]

\* a throw that reaches the catch of the background task
throwError(p, kind) == [p EXCEPT !.pc = "failed", !.error = Some(kind)]

\* processInstantMesh after one of its steps has returned
instantMeshAfter(p, result) ==
    IF p.step = "/check_input_image" THEN invoke(p, "/preprocess")
    ELSE IF p.step = "/preprocess"
    THEN IF result = "none" THEN throwError(p, "missing_data")
         ELSE invoke(notify(saveFetched(p, "3d_processed")), "/generate_mvs")
    ELSE IF p.step = "/generate_mvs"
    THEN IF result = "none" THEN throwError(p, "missing_data")
         ELSE invoke(notify(saveFetched(p, "3d_multiview")), "/make3d")
    ELSE \* "/make3d": data[0] is the OBJ, data[1] the GLB
         IF result = "none" THEN throwError(p, "missing_data")
         ELSE LET obj == notify(saveFetched(writeLocal(p, "model_data"),
                                            "3d_model.obj"))
              IN IF result = "one" THEN throwError(obj, "missing_data")
                 ELSE [notify(saveFetched(obj, "3d_model.glb"))
                          EXCEPT !.pc = "done"]

\* processHunyuan3d and processHunyuan3dMiniTurbo after /generation_all
\* and after the fetch of the mesh
hunyuanAfter(p, result) ==
    IF p.step = "/on_gen_mode_change" THEN invoke(p, "/generation_all")
    ELSE IF p.step = "/generation_all"
    THEN IF result # "full" THEN throwError(p, "missing_data")
         ELSE invoke(p, "fetch mesh")
    ELSE \* "fetch mesh"
         IF result = "none" THEN throwError(p, "missing_data")
         ELSE [notify(saveFetched(p, "3d_model.glb")) EXCEPT !.pc = "done"]

\* process3dAsset: the switch on the space type
process3dAsset(p) ==
    IF p.spaceType = INSTANTMESH THEN invoke(p, "/check_input_image")
    ELSE IF p.spaceType = HUNYUAN3D
    THEN invoke(notify(writeLocal(p, "3d_processed")), "/generation_all")
    ELSE IF p.spaceType = HUNYUAN3D_MINI_TURBO
    THEN invoke(notify(writeLocal(p, "3d_processed")), "/on_gen_mode_change")
    ELSE throwError(p, "unsupported_space_type")

\* the background task after a step has returned, up to the next call of a
\* backend, the end of the task or a throw
afterReturn(p, result) ==
    IF p.step = "textToImage"
    THEN IF result = "none" THEN throwError(p, "missing_data")
         ELSE process3dAsset(saveFetched(p, "3d_image"))
    ELSE IF p.spaceType = INSTANTMESH THEN instantMeshAfter(p, result)
    ELSE hunyuanAfter(p, result)

\* the catch block of retryWithBackoff, or no catch at all, after the step
\* has thrown: the error goes on, or the executor sleeps
afterThrow(p, kind) ==
    IF maxRetriesOf(p.step) = None THEN throwError(p, kind)
    ELSE IF retriesExhausted(p.retries + 1, maxRetriesOf(p.step)[1])
    THEN throwError([p EXCEPT !.retries = @ + 1], kind)
    ELSE [p EXCEPT !.retries = @ + 1, !.pc = "sleeping",
                   !.sleptAfter = @ \cup {kind}]

\* the pipeline instances that run at the same time
Instances == {1, 2}

\* the generate_3d_asset calls of one run of the server
MaxOperations == 1

\* generateUniqueFilename(prefix, ext, toolName):
\* `${prefix}_${toolName}_${timestamp}_${uniqueId}.${ext}`
generateUniqueFilename(prefix, ext, toolName, timestamp, uniqueId) ==
    [prefix |-> prefix, toolName |-> Some(toolName), timestamp |-> timestamp,
     uniqueId |-> Some(uniqueId), ext |-> ext]

\* `3d_processed_${toolName}_${Date.now()}.png` of the Hunyuan workflows
pngImagePath(toolName, timestamp) ==
    [prefix |-> "3d_processed", toolName |-> Some(toolName),
     timestamp |-> timestamp, uniqueId |-> None, ext |-> "png"]

\* `model_data_${Date.now()}.json` of the InstantMesh workflow
modelDebugFilename(timestamp) ==
    [prefix |-> "model_data", toolName |-> None, timestamp |-> timestamp,
     uniqueId |-> None, ext |-> "json"]

\* the files one run of generate_3d_asset writes, in order: the initial image,
\* then the files of the workflow of its space type
writesOf(spaceType) ==
    IF spaceType = INSTANTMESH
    THEN << [by |-> "saveFileFromData", prefix |-> "3d_image", ext |-> "png"],
            [by |-> "saveFileFromData", prefix |-> "3d_processed", ext |-> "png"],
            [by |-> "saveFileFromData", prefix |-> "3d_multiview", ext |-> "png"],
            [by |-> "modelDebugFilename", prefix |-> "model_data", ext |-> "json"],
            [by |-> "saveFileFromData", prefix |-> "3d_model", ext |-> "obj"],
            [by |-> "saveFileFromData", prefix |-> "3d_model", ext |-> "glb"] >>
    ELSE << [by |-> "saveFileFromData", prefix |-> "3d_image", ext |-> "png"],
            [by |-> "pngImagePath", prefix |-> "3d_processed", ext |-> "png"],
            [by |-> "saveFileFromData", prefix |-> "3d_model", ext |-> "glb"] >>

\* the path of the n-th file of an instance, written at the time timestamp;
\* crypto.randomBytes(4) is taken never to give the same value twice
pathOf(write, instance, n, timestamp) ==
    IF write.by = "saveFileFromData"
    THEN generateUniqueFilename(write.prefix, write.ext, "generate_3d_asset",
                                timestamp, <<instance, n>>)
    ELSE IF write.by = "pngImagePath"
    THEN pngImagePath("generate_3d_asset", timestamp)
    ELSE modelDebugFilename(timestamp)

\* the operations whose updates global.operationUpdates holds
OperationIds == {"op_1", "op_2"}

\* if (global.operationUpdates[operationId].length > 100)
LogCap == 100

\* the entry pushed next on a log: entries are numbered in the order of their
\* timestamps
nextEntry(updates) ==
    IF updates = None \/ updates[1] = << >> THEN 1
    ELSE updates[1][Len(updates[1])] + 1

\* logOperation: creates the list if there is none, pushes, and shifts once
\* when the list has grown past 100
logOperation(updates) ==
    LET list == IF updates = None THEN << >> ELSE updates[1]
        pushed == Append(list, nextEntry(updates))
    IN Some(IF Len(pushed) > LogCap THEN Tail(pushed) ELSE pushed)

InitTools ==
    /\ detectedSpaceType = UNKNOWN
    /\ detection = None
    /\ InitRateLimits
    /\ stepsCall = None
    /\ pipe = PipeIdle
    /\ rateCfg = [limit |-> 10, windowMs |-> 60000]

InitExtra ==
    /\ opLog = [id \in OperationIds |-> None]
    /\ disk = [now |-> 0, writers |-> [i \in Instances |-> None],
               written |-> {}]
    /\ asset3d = [operationCounter |-> 0, background |-> 0,
                  operationUpdates |-> [n \in 1..MaxOperations |-> << >>],
                  responses |-> [n \in 1..MaxOperations |-> None]]

InitServer == InitRetry /\ InitTools /\ InitExtra

Init == InitReducer(MixedBackends) /\ InitServer
InitStream == InitReducer({StreamBackend}) /\ InitServer
InitSuggest ==
    InitReducer({SuggestBackend(p) : p \in SuggestionPayloads}) /\ InitServer
InitPublish == InitReducer({PublishBackend}) /\ InitServer
InitAssets == InitReducer({AssetBackend}) /\ InitServer
InitSession == InitReducer({SessionBackend}) /\ InitServer
InitAgents == InitReducer({MixedBackend}) /\ InitServer

\* the model's bounds on the lists that events make grow
WithinBounds(event) ==
    /\ event.type = "code_chunk" /\ typeof(event.payload) = "string" =>
          /\ Len(gameState.codeStream.content) + Len(event.payload.val)
                <= MaxContent
          /\ Len(chunkRun.acc) + Len(event.payload.val) <= MaxContent
    /\ event.type = "asset_completed" =>
          /\ Len(gameState.assets.assets) < MaxAssets
          /\ gameState.assets.progress.total_generated < MaxAssets
    /\ schedulesRefresh(event) => Len(pendingRefresh) < MaxRefresh

\* one event of the stream, applied by the handleEvent of the live generateGame
Applied(event) ==
    /\ gameState' = handleEvent(gameState, event, closureSessionId)
    /\ realSessionId' = handleRealSessionId(realSessionId, event, closureSessionId)
    /\ pendingRefresh' = IF schedulesRefresh(event)
                         THEN Append(pendingRefresh, closureSessionId)
                         ELSE pendingRefresh
    /\ lastChat' = IF forwardsToChat(event) THEN event.type ELSE lastChat
    /\ UNCHANGED <<closureSessionId, handlerLive, backend>>
    /\ History(event, gameState')

\* the updater passed to setGameState throws while GameProvider renders: the
\* update is lost and the provider is gone with its handler
Thrown(event) ==
    /\ raised' = Some(event)
    /\ handlerLive' = FALSE
    /\ UNCHANGED <<gameState, realSessionId, closureSessionId, pendingRefresh,
                   lastChat, backend>>
    /\ UNCHANGED <<lastEvent, prevOp, chunkRun, e2eStep, pubStep, assetRun,
                   sent, firstCaptured, cleared>>

Deliver(event) ==
    /\ WithinBounds(event)
    /\ IF raises(event) THEN Thrown(event) ELSE Applied(event)
    /\ UNCHANGED <<panelVars, serverVars>>

GenerateGame ==
    /\ gameState' = generateGameReset(gameState)
    /\ handlerLive' = TRUE
    /\ closureSessionId' = realSessionId
    /\ UNCHANGED <<realSessionId, pendingRefresh, lastChat, backend>>
    /\ HistoryOfCall("generateGame", gameState', TRUE)
    /\ UNCHANGED <<panelVars, serverVars>>

\* await mayaAPI.generateGame(...) returned: the stream is over
GenerateGameResolved ==
    /\ handlerLive
    /\ handlerLive' = FALSE
    /\ UNCHANGED <<gameState, realSessionId, closureSessionId, pendingRefresh,
                   lastChat, backend>>
    /\ HistoryOfCall("resolved", gameState, FALSE)
    /\ UNCHANGED <<panelVars, serverVars>>

\* await mayaAPI.generateGame(...) threw
GenerateGameRejected ==
    /\ handlerLive
    /\ \E m \in RejectionMessages :
          gameState' = generateGameRejected(gameState, m)
    /\ handlerLive' = FALSE
    /\ UNCHANGED <<realSessionId, closureSessionId, pendingRefresh, lastChat,
                   backend>>
    /\ HistoryOfCall("rejected", gameState', FALSE)
    /\ UNCHANGED <<panelVars, serverVars>>

CancelGeneration ==
    /\ gameState' = cancelGenerationState(gameState)
    /\ UNCHANGED <<realSessionId, closureSessionId, handlerLive, pendingRefresh,
                   lastChat, backend>>
    /\ HistoryOfCall("cancelGeneration", gameState', TRUE)
    /\ UNCHANGED <<panelVars, serverVars>>

ClearGame ==
    /\ gameState' = clearGameState
    /\ UNCHANGED <<realSessionId, closureSessionId, handlerLive, pendingRefresh,
                   lastChat, backend>>
    /\ HistoryOfCall("clearGame", gameState', TRUE)
    /\ UNCHANGED <<panelVars, serverVars>>

\* a timer fires and loadSessionAssets runs to its end
LoadSessionAssets ==
    /\ pendingRefresh # << >>
    /\ \E response \in backend.responses :
          gameState' =
              IF response = None THEN gameState
              ELSE loadSessionAssetsState(
                       gameState, response[1],
                       sessionIdToUse(None, Head(pendingRefresh)))
    /\ pendingRefresh' = Tail(pendingRefresh)
    /\ UNCHANGED <<realSessionId, closureSessionId, handlerLive, lastChat,
                   backend>>
    /\ HistoryOfCall("loadSessionAssets", gameState', FALSE)
    /\ UNCHANGED <<panelVars, serverVars>>

\* the events of the stream, one action per event type; an event reaches
\* handleEvent only while a generateGame call is waiting on its stream
EvStatus ==
    \E p \in backend.status : handlerLive /\ Deliver(Event("status", p))
EvExplanation ==
    \E p \in backend.explanation : handlerLive /\ Deliver(Event("explanation", p))
EvFeatures ==
    \E p \in backend.features : handlerLive /\ Deliver(Event("features", p))
EvCommand ==
    \E p \in backend.command : handlerLive /\ Deliver(Event("command", p))
EvSuggestions ==
    \E p \in backend.suggestions : handlerLive /\ Deliver(Event("suggestions", p))
EvCodeChunk ==
    \E p \in backend.code_chunk : handlerLive /\ Deliver(Event("code_chunk", p))
EvCode ==
    \E p \in backend.code : handlerLive /\ Deliver(Event("code", p))
EvError ==
    \E p \in backend.error : handlerLive /\ Deliver(Event("error", p))
EvPublishStatus ==
    \E p \in backend.publish_status : handlerLive /\ Deliver(Event("publish_status", p))
EvPublishSuccess ==
    \E p \in backend.publish_success : handlerLive /\ Deliver(Event("publish_success", p))
EvPublishError ==
    \E p \in backend.publish_error : handlerLive /\ Deliver(Event("publish_error", p))
EvPublishMessage ==
    \E p \in backend.publish_message : handlerLive /\ Deliver(Event("publish_message", p))
EvAssetSessionStart ==
    \E p \in backend.asset_session_start : handlerLive /\ Deliver(Event("asset_session_start", p))
EvAssetGenerating ==
    \E p \in backend.asset_generating : handlerLive /\ Deliver(Event("asset_generating", p))
EvAssetCompleted ==
    \E p \in backend.asset_completed : handlerLive /\ Deliver(Event("asset_completed", p))
EvAssetSessionComplete ==
    \E p \in backend.asset_session_complete : handlerLive /\ Deliver(Event("asset_session_complete", p))
EvAssetError ==
    \E p \in backend.asset_error : handlerLive /\ Deliver(Event("asset_error", p))
EvStreamComplete == handlerLive /\ Deliver(Event("stream_complete", None))

\* code generation cycles, with every code chunk payload
NextStream ==
    \/ GenerateGame
    \/ EvStatus
    \/ EvExplanation
    \/ EvCodeChunk
    \/ EvCode
    \/ EvError

SpecStream == InitStream /\ [][NextStream]_vars

\* suggestions events, with every suggestion payload
NextSuggest ==
    \/ GenerateGame
    \/ EvSuggestions
    \/ EvError

SpecSuggest == InitSuggest /\ [][NextSuggest]_vars

\* the asset lifecycle
NextAssets ==
    \/ GenerateGame
    \/ ClearGame
    \/ EvAssetSessionStart
    \/ EvAssetGenerating
    \/ EvAssetCompleted
    \/ EvAssetSessionComplete
    \/ EvAssetError

SpecAssets == InitAssets /\ [][NextAssets]_vars

\* the publisher lifecycle
NextPublish ==
    \/ GenerateGame
    \/ EvPublishStatus
    \/ EvPublishSuccess
    \/ EvPublishError
    \/ EvPublishMessage
    \/ EvCode
    \/ EvError

SpecPublish == InitPublish /\ [][NextPublish]_vars


\* React runs the effect of AgentFlowPanel after a render in which one of its
\* dependencies has changed; the events applied in between are batched
AgentFlowEffect ==
    /\ effectDependencies(gameState) # effectDeps
    /\ gameState' = agentFlowEffect(gameState)
    /\ effectDeps' = effectDependencies(gameState)
    /\ snapshot' \in
          IF snapshot = None
          THEN {None, Some([core |-> coreTriple(gameState'),
                            statuses |-> agentStatuses(gameState')])}
          ELSE {snapshot}
    /\ UNCHANGED <<realSessionId, closureSessionId, handlerLive, pendingRefresh,
                   lastChat, backend>>
    /\ UNCHANGED <<historyVars, serverVars>>

\* the agent panel while games are created and published
NextAgents ==
    \/ GenerateGame
    \/ EvStatus
    \/ EvCode
    \/ EvPublishStatus
    \/ EvPublishSuccess
    \/ AgentFlowEffect

SpecAgents == InitAgents /\ [][NextAgents]_vars

\* requests and session ids: cycles, cancel, clear, errors and asset events
NextSession ==
    \/ GenerateGame
    \/ GenerateGameResolved
    \/ CancelGeneration
    \/ ClearGame
    \/ EvError
    \/ EvAssetSessionStart
    \/ EvAssetCompleted

SpecSession == InitSession /\ [][NextSession]_vars

\* cancel while a game is created, published or its assets are generated
InitCancel == InitReducer({SmallBackend}) /\ InitServer

NextCancel ==
    \/ GenerateGame
    \/ CancelGeneration
    \/ EvStatus
    \/ EvCodeChunk
    \/ EvPublishStatus
    \/ EvAssetSessionStart

SpecCancel == InitCancel /\ [][NextCancel]_vars

\* the events of the three agents, two agents at a time
Next ==
    \/ GenerateGame
    \/ EvStatus
    \/ EvExplanation
    \/ EvFeatures
    \/ EvCode
    \/ EvError
    \/ EvPublishStatus
    \/ EvPublishSuccess
    \/ EvPublishError
    \/ EvPublishMessage
    \/ EvAssetSessionStart
    \/ EvAssetGenerating
    \/ EvAssetCompleted
    \/ EvAssetSessionComplete
    \/ EvAssetError

Spec == Init /\ [][Next]_vars

----------------------------------------------------------------------------
(* The retry executor as a state machine: one call of retryWithBackoff *)

\* retryWithBackoff(operation, operationId, maxRetries, initialDelay) is called
RetryStart ==
    /\ rpc = "idle"
    /\ \E c \in RetryConfigs, updates \in {None, Some(<< >>)} :
          /\ cfg' = c
          /\ operationUpdates' = updates
          /\ delay' = c.initialDelay
    /\ retries' = 0
    /\ rpc' = "loop"
    /\ UNCHANGED <<calls, outcome, waited>>
    /\ UNCHANGED <<clientVars, toolVars, extraVars>>

\* return await operation(), operation() fulfilled
OperationSucceeds ==
    /\ rpc = "loop"
    /\ cfg.impl = "utils.js" => loopCondition(retries, cfg.maxRetries)
    /\ \E result \in OperationResults :
          /\ calls' = Append(calls, [ok |-> TRUE, value |-> result])
          /\ outcome' = Returned(result)
    /\ rpc' = "done"
    /\ UNCHANGED <<retries, delay, waited, operationUpdates, cfg>>
    /\ UNCHANGED <<clientVars, toolVars, extraVars>>

\* operation() rejected: the catch block, up to the throw or to the sleep
OperationFails ==
    /\ rpc = "loop"
    /\ cfg.impl = "utils.js" => loopCondition(retries, cfg.maxRetries)
    /\ \E error \in OperationErrors :
          /\ calls' = Append(calls, [ok |-> FALSE, value |-> error])
          /\ retries' = retries + 1
          /\ IF retriesExhausted(retries + 1, cfg.maxRetries)
             THEN /\ outcome' = Threw(error)
                  /\ rpc' = "done"
                  /\ UNCHANGED <<waited, operationUpdates>>
             ELSE /\ operationUpdates' =
                        IF pushesUpdate(cfg.impl, error)
                        THEN recordWait(
                                 operationUpdates, cfg.hasOperationId,
                                 waitingUpdate(
                                     retries + 1, cfg.maxRetries,
                                     reportedWait(cfg.impl, error, delay)))
                        ELSE operationUpdates
                  /\ waited' = Append(waited, sleepTime(cfg.impl, error, delay))
                  /\ rpc' = "sleeping"
                  /\ UNCHANGED outcome
    /\ UNCHANGED <<delay, cfg>>
    /\ UNCHANGED <<clientVars, toolVars, extraVars>>

\* the timer of the sleep fires: delay *= 2 and the loop goes round
Wake ==
    /\ rpc = "sleeping"
    /\ delay' = delayAfterSleep(cfg.impl, calls[Len(calls)].value, delay)
    /\ rpc' = "loop"
    /\ UNCHANGED <<retries, calls, outcome, waited, operationUpdates, cfg>>
    /\ UNCHANGED <<clientVars, toolVars, extraVars>>

InitRetrying == InitReducer({SmallBackend}) /\ InitServer

NextRetry == RetryStart \/ OperationSucceeds \/ OperationFails \/ Wake

SpecRetry == InitRetrying /\ [][NextRetry]_vars

----------------------------------------------------------------------------
(* Detection of the backend type: one call of detectSpaceType *)

\* detectSpaceType(client, modelSpace, workDir) runs to its return or throw;
\* the server calls it once, when it connects to the space
DetectSpaceType ==
    /\ detection = None
    /\ \E impl \in {"utils.js", "index.js"}, manual \in ManualSpaceTypes,
          probe \in ViewApiResults, modelSpace \in ModelSpaces :
          LET result == detectSpaceType(impl, manual, probe, modelSpace)
          IN /\ detection' = Some([impl |-> impl, manual |-> manual,
                                   probe |-> probe, modelSpace |-> modelSpace,
                                   result |-> result])
             /\ detectedSpaceType' = IF result[1].kind = "returned"
                                     THEN result[1].value
                                     ELSE detectedSpaceType
    /\ UNCHANGED <<clientVars, retryVars, rateVars, stepsCall, pipe, extraVars>>

InitDetect == InitReducer({SmallBackend}) /\ InitServer

NextDetect == DetectSpaceType

SpecDetect == InitDetect /\ [][NextDetect]_vars

----------------------------------------------------------------------------
(* The rate limiter as a state machine: requests of several clients *)

\* POST /messages: one request of a client runs checkRateLimit to its return
CheckRateLimit ==
    /\ (IF rateCall = None THEN 0 ELSE rateCall[1].n) < MaxRequests
    /\ \E clientId \in ClientIds :
          LET key == clientKey(clientId)
              ok == admits(rateLimits, clientId, rateCfg.limit, clock)
          IN /\ rateLimits' = rateLimitsAfter(rateLimits, clientId,
                                   rateCfg.limit, rateCfg.windowMs, clock)
             /\ windows' = windowsAfter(windows, key, rateCfg.windowMs, clock, ok)
             /\ rateCall' =
                   Some([n |-> IF rateCall = None THEN 1 ELSE rateCall[1].n + 1,
                         key |-> key, at |-> clock, admitted |-> ok,
                         before |-> rateLimits,
                         fresh |-> windows[key] # windows'[key]
                                   /\ windows'[key][1].start = clock
                                   /\ (windows[key] = None
                                       \/ windows[key][1].start # clock)])
    /\ UNCHANGED <<clock, rateCfg>>
    /\ UNCHANGED <<clientVars, retryVars, detectVars, stepsCall, pipe, extraVars>>

\* time passes between two requests
Tick ==
    /\ clock < MaxNow
    /\ clock' = clock + 1
    /\ UNCHANGED <<rateLimits, rateCfg, rateCall, windows>>
    /\ UNCHANGED <<clientVars, retryVars, detectVars, stepsCall, pipe, extraVars>>

InitRate ==
    /\ InitReducer({SmallBackend}) /\ InitRetry /\ InitExtra
    /\ detectedSpaceType = UNKNOWN /\ detection = None
    /\ stepsCall = None /\ pipe = PipeIdle
    /\ InitRateLimits
    /\ rateCfg \in [limit : 1..MaxLimit, windowMs : 1..MaxWindowMs]

NextRate == CheckRateLimit \/ Tick

SpecRate == InitRate /\ [][NextRate]_vars

----------------------------------------------------------------------------
(* The steps of a workflow: from the environment to the predict call *)

\* the server reads MODEL_3D_STEPS at start-up; the workflow of the detected
\* backend computes the steps it passes to modelClient.predict
SendSteps ==
    /\ stepsCall = None
    /\ \E env \in StepsEnvs, mode \in TurboModes,
          spaceType \in {INSTANTMESH, HUNYUAN3D, HUNYUAN3D_MINI_TURBO} :
          /\ spaceType # HUNYUAN3D_MINI_TURBO => mode = None
          /\ stepsCall' = Some([env |-> env, spaceType |-> spaceType,
                                turboMode |-> mode,
                                configured |-> model3dSteps(env),
                                steps |-> stepsSent(spaceType,
                                              model3dSteps(env), mode)])
    /\ UNCHANGED <<clientVars, retryVars, detectVars, rateVars, pipe, extraVars>>

InitSteps == InitReducer({SmallBackend}) /\ InitServer

NextSteps == SendSteps

SpecSteps == InitSteps /\ [][NextSteps]_vars

----------------------------------------------------------------------------
(* The 3D pipeline as a state machine: one background task *)

\* generate_3d_asset: the background task starts with the textToImage call
StartPipeline ==
    /\ pipe.pc = "idle"
    /\ \E spaceType \in PipelineSpaceTypes :
          pipe' = invoke([PipeIdle EXCEPT !.spaceType = spaceType],
                         "textToImage")
    /\ UNCHANGED <<clientVars, retryVars, detectVars, rateVars, stepsCall, extraVars>>

\* the backend answers the step in flight; the task runs on to its next await
\* of a backend
StepReturns ==
    /\ pipe.pc = "calling"
    /\ \E result \in StepResults : pipe' = afterReturn(pipe, result)
    /\ UNCHANGED <<clientVars, retryVars, detectVars, rateVars, stepsCall, extraVars>>

\* the operation of the step in flight throws
StepThrows ==
    /\ pipe.pc = "calling"
    /\ \E kind \in operationErrors(pipe.step, pipe.spaceType) :
          pipe' = afterThrow(pipe, kind)
    /\ UNCHANGED <<clientVars, retryVars, detectVars, rateVars, stepsCall, extraVars>>

\* the sleep of retryWithBackoff ends and the step is issued again
WakePipeline ==
    /\ pipe.pc = "sleeping"
    /\ pipe' = [pipe EXCEPT !.pc = "calling"]
    /\ UNCHANGED <<clientVars, retryVars, detectVars, rateVars, stepsCall, extraVars>>

InitPipeline == InitReducer({SmallBackend}) /\ InitServer

NextPipeline == StartPipeline \/ StepReturns \/ StepThrows \/ WakePipeline

SpecPipeline == InitPipeline /\ [][NextPipeline]_vars

----------------------------------------------------------------------------
(* Properties of the code stream (SpecStream) *)

\* C1: for every sequence of code_chunk events with string payloads applied
\* within one streaming session, with no other event in between,
\* codeStream.content after the last chunk is the concatenation of all the
\* chunk payloads in arrival order.
C1_ContentIsConcatenation ==
    chunkRun.active /\ chunkRun.any =>
        gameState.codeStream.content = chunkRun.acc

\* C2: a code_chunk event applied after a terminal code event starts a fresh
\* accumulator: codeStream.content is exactly that chunk's payload and
\* isStreaming is true.
C2_FreshAccumulatorAfterCode ==
    /\ chunkRun.active /\ chunkRun.any
    /\ chunkRun.since = "code"
    /\ lastEvent.payload.val = chunkRun.acc
    => /\ gameState.codeStream.content = lastEvent.payload.val
       /\ gameState.codeStream.isStreaming

\* C3: a code event, applied in any state, leaves status completed,
\* isGenerating false, codeStream.isStreaming false and code equal to the
\* payload of the event.
C3_CodeCompletes ==
    lastEvent.type = "code" =>
        /\ gameState.status = "completed"
        /\ ~gameState.isGenerating
        /\ ~gameState.codeStream.isStreaming
        /\ gameState.code = Some(lastEvent.payload)

\* a code event has been applied to a state that was streaming chunks
C3_CodeAfterStreaming ==
    /\ lastEvent.type = "code"
    /\ lastEvent.payload = GameCode(HtmlOpen)
    /\ gameState.code = Some(GameCode(HtmlOpen))
    /\ gameState.codeStream.content = HtmlOpen \o HtmlClose
    /\ gameState.buildingStatus.bullets = CompletionBullets

\* C4: an error event, applied in any state, leaves code empty, suggestions
\* empty and status error, also when a previous cycle had stored code.
C4_ErrorClearsCode ==
    lastEvent.type = "error" =>
        /\ gameState.code = None
        /\ gameState.suggestions = << >>
        /\ gameState.status = "error"

\* C7: after the start of a cycle, the events status:thinking, explanation,
\* code_chunk "<html>", code_chunk "</html>", code {html: "<html></html>"}
\* leave code.html = "<html></html>", status completed,
\* codeStream.content = "<html></html>" and isStreaming false.
C7_EndToEnd ==
    e2eStep = Len(E2EScenario) =>
        /\ gameState.code # None
        /\ gameState.code[1].html = HtmlOpen \o HtmlClose
        /\ gameState.status = "completed"
        /\ gameState.codeStream.content = HtmlOpen \o HtmlClose
        /\ ~gameState.codeStream.isStreaming

\* the five events of the scenario have been applied, in a second cycle
C7_ScenarioDone ==
    /\ e2eStep = Len(E2EScenario)
    /\ lastEvent = E2EScenario[Len(E2EScenario)]

----------------------------------------------------------------------------
(* Properties of the suggestions (SpecSuggest) *)

IsBulletMarker(m) == m \in {<<"-">>, <<"*">>}
IsNumberMarker(m) ==
    /\ Len(m) >= 2 /\ m[Len(m)] = "."
    /\ \A i \in 1..(Len(m) - 1) : IsDigit(m[i])

\* the ways to read t as a marker, some whitespace, and a text that begins
\* with something else than whitespace: <<end of marker, end of whitespace>>
markedAs(t, IsMarker(_)) ==
    { ab \in (1..Len(t)) \X (1..Len(t)) :
        /\ ab[1] < ab[2] /\ ab[2] < Len(t)
        /\ IsMarker(SubSeq(t, 1, ab[1]))
        /\ \A i \in (ab[1] + 1)..ab[2] : IsSpace(t[i])
        /\ ~IsSpace(t[ab[2] + 1]) }

textAfter(t, IsMarker(_)) ==
    LET ab == CHOOSE x \in markedAs(t, IsMarker) : TRUE
    IN SubSeq(t, ab[2] + 1, Len(t))

\* what a line of the payload gives: nothing, or one suggestion
suggestionOf(line) ==
    LET t == trim(line)
    IN IF markedAs(t, IsBulletMarker) # {}
       THEN LET text == textAfter(t, IsBulletMarker)
            IN IF markedAs(text, IsNumberMarker) # {}
               THEN <<textAfter(text, IsNumberMarker)>>
               ELSE <<text>>
       ELSE IF markedAs(t, IsNumberMarker) # {}
       THEN <<textAfter(t, IsNumberMarker)>>
       ELSE << >>

RECURSIVE suggestionsOf(_)
suggestionsOf(lines) ==
    IF lines = << >> THEN << >>
    ELSE suggestionOf(Head(lines)) \o suggestionsOf(Tail(lines))

\* C5 (amended): after a suggestions event with a string payload,
\* suggestions is never empty: it holds, in order, one entry for each payload
\* line that, trimmed, is a marker ('-', '*' or 'N.'), whitespace and a text:
\* that text, without a leading 'N.' marker of its own when the line's marker
\* is '-' or '*'; when no line gives an entry it holds the fixed 6-item
\* default list.
C5_SuggestionsParsed ==
    lastEvent.type = "suggestions" /\ typeof(lastEvent.payload) = "string" =>
        LET entries == suggestionsOf(splitLines(lastEvent.payload.val))
        IN /\ gameState.suggestions # << >>
           /\ gameState.suggestions =
                  IF entries = << >> THEN DefaultSuggestions ELSE entries

\* a bullet line that carries a number marker, and a bullet inside a bullet
C5_NestedMarkers ==
    /\ lastEvent.type = "suggestions"
    /\ lastEvent.payload =
           JsStr(<<"-", " ", "1", ".", " ", "a", "\n",
                   "*", " ", " ", "-", " ", "b">>)
    /\ gameState.suggestions = << <<"a">>, <<"-", " ", "b">> >>

\* the text of a line that starts with a marker: what follows the marker
startsWithMarker(line) ==
    \E a \in 1..Len(line) :
        IsBulletMarker(SubSeq(line, 1, a)) \/ IsNumberMarker(SubSeq(line, 1, a))

contentOf(line) ==
    LET a == CHOOSE x \in 1..Len(line) :
                 \/ IsBulletMarker(SubSeq(line, 1, x))
                 \/ IsNumberMarker(SubSeq(line, 1, x))
    IN trim(SubSeq(line, a + 1, Len(line)))

RECURSIVE contentsOf(_)
contentsOf(lines) ==
    IF lines = << >> THEN << >>
    ELSE (IF startsWithMarker(Head(lines))
          THEN <<contentOf(Head(lines))>> ELSE << >>)
             \o contentsOf(Tail(lines))

\* C5: after a suggestions event, suggestions is never empty: it holds, in
\* order, the contents of the payload lines that start with a bullet marker
\* ('-', '*' or 'N.'), and the fixed 6-item default list when no line does.
C5_SuggestionsNeverEmpty ==
    lastEvent.type = "suggestions" =>
        LET contents == contentsOf(splitLines(lastEvent.payload.val))
        IN /\ gameState.suggestions # << >>
           /\ gameState.suggestions =
                  IF contents = << >> THEN DefaultSuggestions ELSE contents

----------------------------------------------------------------------------
(* Properties of the operation type (Spec) *)

\* C6: after a publish_status, publish_success, publish_error or
\* publish_message event operationType is publishing; after a status,
\* explanation, code or features event it is game_creation; an asset event
\* leaves it as it was.
C6_OperationTypeFollowsEvent ==
    /\ lastEvent.type \in PublishEventTypes =>
          gameState.operationType = "publishing"
    /\ lastEvent.type \in GameCreationEventTypes =>
          gameState.operationType = "game_creation"
    /\ lastEvent.type \in AssetEventTypes =>
          gameState.operationType = prevOp

\* an asset event has been applied while publishing
C6_AssetEventWhilePublishing ==
    /\ lastEvent.type = "asset_completed"
    /\ prevOp = "publishing"
    /\ gameState.operationType = "publishing"
    /\ gameState.publisher.status = "published"

----------------------------------------------------------------------------
(* Properties of the asset list (SpecAssets) *)

filenames(assets) == [i \in 1..Len(assets) |-> assets[i].filename]

\* C8: each asset_completed event appends exactly one record, at the end of
\* assets.assets, and adds one to progress.total_generated; n such events
\* applied to an empty asset state leave n records, in the order of the
\* events, and total_generated = n.
C8_AssetCompletedAppends ==
    /\ lastEvent.type = "asset_completed" =>
          LET before == assetRun.before[1]
              now == gameState.assets
          IN /\ Len(now.assets) = Len(before.assets) + 1
             /\ SubSeq(now.assets, 1, Len(before.assets)) = before.assets
             /\ now.assets[Len(now.assets)].filename
                    = lastEvent.payload.filename
             /\ now.progress.total_generated = before.total_generated + 1
    /\ assetRun.active =>
          /\ filenames(gameState.assets.assets) = assetRun.names
          /\ gameState.assets.progress.total_generated = Len(assetRun.names)

\* three asset_completed events have been applied to the empty asset state
C8_ThreeAssetsInOrder ==
    /\ assetRun.active
    /\ assetRun.names = << <<"b.png">>, <<"a.png">>, <<"c.png">> >>
    /\ lastEvent.type = "asset_completed"

----------------------------------------------------------------------------
(* Properties of the publisher (SpecPublish) *)

\* C9: the events publish_status validating, preparing, deploying and then
\* publish_success leave publisher.status published, isPublishing false, and
\* liveUrl and siteName as the payload of publish_success gives them.
C9_PublishSequence ==
    pubStep = 4 =>
        /\ gameState.publisher.status = "published"
        /\ ~gameState.publisher.isPublishing
        /\ gameState.publisher.liveUrl = Some(lastEvent.payload.live_url)
        /\ gameState.publisher.siteName = Some(lastEvent.payload.site_name)

\* the four events have been applied, after an earlier publication elsewhere
C9_PublishedAgain ==
    /\ pubStep = 4
    /\ lastEvent.type = "publish_success"
    /\ lastEvent.payload.site_name = <<"pong">>
    /\ gameState.publisher.siteName = Some(<<"pong">>)

----------------------------------------------------------------------------
(* Properties of the retry executor (SpecRetry) *)

\* C10: retryWithBackoff calls the operation at most maxRetries + 1 times;
\* when a call succeeds it returns that result and calls no more; when every
\* call fails it ends by throwing the error of the last call, as it was
\* thrown by the operation.
C10_RetryContract ==
    LET n == Len(calls)
    IN /\ n <= cfg.maxRetries + 1
       /\ \A i \in 1..(n - 1) : ~calls[i].ok
       /\ n > 0 /\ calls[n].ok =>
             rpc = "done" /\ outcome = Returned(calls[n].value)
       /\ n = cfg.maxRetries + 1 /\ ~calls[n].ok =>
             rpc = "done" /\ outcome = Threw(calls[n].value)
       /\ outcome # None =>
             /\ n > 0
             /\ outcome[1].kind = (IF calls[n].ok THEN "returned" ELSE "threw")
             /\ outcome[1].kind = "threw" => n = cfg.maxRetries + 1

\* every call failed, with different errors, and the last error was thrown
C10_ThrewLastError ==
    /\ outcome # None
    /\ outcome[1].kind = "threw"
    /\ Len(calls) = 3
    /\ calls[1].value # calls[3].value
    /\ outcome[1].value = calls[3].value

\* the duration a quota message carries, in ms (0 when it carries none)
quotedDuration(errorMessage) ==
    IF errorMessage.match = None THEN 0
    ELSE LET g == errorMessage.match[1]
         IN (groupOrZero(g.h) * 3600 + groupOrZero(g.m) * 60
                + groupOrZero(g.s)) * 1000
            + groupOrZero(g.sec) * 1000
            + groupOrZero(g.min) * 60 * 1000
            + groupOrZero(g.hr) * 3600 * 1000

\* C11: the wait before a retry is chosen from the message of the error: a
\* quota message with a duration gives that duration plus the buffer of one
\* second; a message that mentions the quota without a duration gives 60
\* seconds; any other error gives the current backoff delay, which starts at
\* initialDelay.
C11_WaitFromMessage ==
    rpc = "sleeping" =>
        LET error == calls[Len(calls)].value
            wait == waited[Len(waited)]
        IN /\ quotedDuration(error) > 0 =>
                 wait = quotedDuration(error) + 1000
           /\ error.match = None /\ error.mentionsQuota => wait = 60 * 1000
           /\ error.match = None /\ ~error.mentionsQuota =>
                 /\ wait = delay
                 /\ Len(waited) = 1 => wait = cfg.initialDelay

----------------------------------------------------------------------------
(* Properties of the session ids (SpecSession) *)

\* C12: every request sent by generateGame carries the same session_id: the
\* one of a creation request is the one of any later publish request, also
\* after an error event, cancelGeneration or clearGame in between.
C12_OneSessionIdInRequests ==
    /\ Cardinality(sent.ids) <= 1
    /\ sent.ids \subseteq {sessionId}

\* a second request has just been sent, after a backend session id had been
\* captured from an asset event
C12_RequestAfterCapture ==
    /\ lastEvent.type = "generateGame"
    /\ sent.n = 2
    /\ realSessionId = Some(<<"adk_B">>)
    /\ gameState.assets.assets # << >>

\* C15: the captured backend session id is first-wins: once an id has been
\* captured from an asset event, no later asset_session_start or
\* asset_completed event that carries another session_id overwrites it.
C15_FirstSessionIdWins ==
    firstCaptured # None => realSessionId = firstCaptured

----------------------------------------------------------------------------
(* Properties of the agent panel (SpecAgents) *)

\* C13: the agent statuses are a projection of the core state: a function of
\* (operationType, statusBox phase, publisher.status) alone, so that two
\* histories that reach the same triple show the same agent statuses.
C13_AgentsAreProjection ==
    /\ snapshot # None
    /\ effectDependencies(gameState) = effectDeps
    /\ coreTriple(gameState) = snapshot[1].core
    => agentStatuses(gameState) = snapshot[1].statuses

----------------------------------------------------------------------------
(* Properties of the detection of the backend type (SpecDetect) *)

\* the backends whose signature is among the endpoints the probe declared
signedBackends(probe) ==
    LET named == IF probe.value = None \/ probe.value[1].named_endpoints = None
                 THEN {} ELSE probe.value[1].named_endpoints[1]
    IN {t \in {INSTANTMESH, HUNYUAN3D_MINI_TURBO, HUNYUAN3D} :
           \E e \in named :
               \/ t = INSTANTMESH /\ e \in InstantMeshEndpoints
               \/ t = HUNYUAN3D_MINI_TURBO /\ e \in MiniTurboEndpoints
               \/ t = HUNYUAN3D /\ e \in Hunyuan3dEndpoints}

\* the backends whose name is a substring of the name of the space
namedBackends(modelSpace) ==
    LET lowerSpace == toLowerCase(modelSpace)
    IN {t \in {INSTANTMESH, HUNYUAN3D_MINI_TURBO, HUNYUAN3D} :
           \/ t = INSTANTMESH /\ includes(lowerSpace, name_instantmesh)
           \/ t = HUNYUAN3D /\ includes(lowerSpace, name_hunyuan)
           \/ t = HUNYUAN3D_MINI_TURBO
              /\ \/ includes(lowerSpace, name_miniTurbo)
                 \/ includes(lowerSpace, name_2mini)
                 \/ includes(lowerSpace, name_3dmini)}

validOverride(manual) ==
    /\ manual # None
    /\ toLowerCase(manual[1]) \in
          {INSTANTMESH, HUNYUAN3D, HUNYUAN3D_MINI_TURBO, UNKNOWN}

\* C14: detection applies its sources in a fixed priority: a valid manual
\* override wins; otherwise a signature among the declared endpoints wins;
\* otherwise the substring match on the name of the space is used; when none
\* of the three matches detection fails with an error.
C14_DetectionPriority ==
    detection # None =>
        LET d == detection[1]
            result == d.result[1]
        IN IF validOverride(d.manual)
           THEN /\ result.kind = "returned"
                /\ result.value = toLowerCase(d.manual[1])
           ELSE IF signedBackends(d.probe) # {}
           THEN /\ result.kind = "returned"
                /\ result.value \in signedBackends(d.probe)
           ELSE IF namedBackends(d.modelSpace) # {}
           THEN /\ result.kind = "returned"
                /\ result.value \in namedBackends(d.modelSpace)
           ELSE result.kind = "threw"

\* the same priority when the probe of the endpoints answers, in utils.js
C14_PriorityWhenProbeAnswers ==
    detection # None /\ detection[1].impl = "utils.js" /\ detection[1].probe.ok
        => C14_DetectionPriority

----------------------------------------------------------------------------
(* Properties of the rate limiter (SpecRate) *)

\* C16: for every client and every interleaving of the requests of several
\* clients, checkRateLimit admits at most `limit` requests of the client
\* within one window; the count of a client is never changed by the request
\* of another client; and the first request after the window has expired
\* starts a new window and is admitted.
C16_RateLimitPerClient ==
    /\ \A k \in ClientKeys :
          windows[k] # None => windows[k][1].admitted <= rateCfg.limit
    /\ rateCall # None =>
          /\ \A k \in ClientKeys \ {rateCall[1].key} :
                rateLimits[k] = rateCall[1].before[k]
          /\ rateCall[1].fresh =>
                /\ rateCall[1].admitted
                /\ rateLimits[rateCall[1].key][1].count = 1

\* a client is refused at its limit while another one is still admitted, and
\* is admitted again once its window has expired
C16_RefusedThenAdmitted ==
    /\ rateCall # None /\ rateCall[1].fresh /\ rateCall[1].n >= 4
    /\ rateCall[1].before[rateCall[1].key] # None
    /\ rateCall[1].before[rateCall[1].key][1].count = rateCfg.limit
    /\ \E k \in ClientKeys \ {rateCall[1].key} :
          rateLimits[k] # None /\ rateLimits[k][1].resetAt >= clock

----------------------------------------------------------------------------
(* Properties of the workflow parameters (SpecSteps) *)

\* the valid range of steps and the documented default of each backend
stepsRange(spaceType) ==
    IF spaceType = INSTANTMESH THEN 30..75
    ELSE IF spaceType = HUNYUAN3D THEN 20..50
    ELSE 1..100

documentedDefault(spaceType, turboMode) ==
    IF spaceType = INSTANTMESH THEN 75
    ELSE IF spaceType = HUNYUAN3D THEN 20
    ELSE IF turboMode \in {None, Some("Turbo")} THEN 5
    ELSE IF turboMode = Some("Fast") THEN 10
    ELSE 20

\* the configuration is absent, or its text has no digit in it
absentOrNonNumeric(env) ==
    env = None \/ \A i \in 1..Len(env[1]) : ~IsDigit(env[1][i])

\* C17: for each backend the steps sent in the backend call lie in the valid
\* range of the backend (InstantMesh 30..75, Hunyuan3D-2 20..50,
\* Hunyuan3D-2mini-Turbo 1..100) for every configured value; an absent or
\* non-numeric configuration yields the documented default of the backend.
C17_StepsInRange ==
    stepsCall # None =>
        LET c == stepsCall[1]
        IN /\ ~c.steps.nan
           /\ c.steps.val \in stepsRange(c.spaceType)
           /\ absentOrNonNumeric(c.env) =>
                 c.steps.val = documentedDefault(c.spaceType, c.turboMode)

\* the same for the two Hunyuan workflows, which take the default with ||
C17_HunyuanStepsInRange ==
    stepsCall # None /\ stepsCall[1].spaceType # INSTANTMESH => C17_StepsInRange

----------------------------------------------------------------------------
(* Properties of the 3D pipeline (SpecPipeline) *)

\* C18: every fetched intermediate artifact (initial image, processed image,
\* multi-view image, mesh) is written to local storage and announced by a
\* resource-changed notification before the next backend step is invoked; so
\* when a later step fails, the artifacts of the earlier steps are stored and
\* announced.
C18_SavedAndNotifiedBeforeNextStep ==
    pipe.pc \in {"calling", "sleeping", "failed"} =>
        /\ pipe.fetched \subseteq pipe.stored
        /\ pipe.fetched \subseteq pipe.announced

----------------------------------------------------------------------------
(* Properties of clearGame (SpecAssets) *)

\* C20: from any reachable state, clearGame returns every field of the
\* session state (code, status flags, statusBox, buildingStatus, codeStream,
\* suggestions, publisher, operationType, agents, assets) to the default it
\* has at the start of the session.
C20_ClearGameRestoresDefaults ==
    lastEvent.type = "clearGame" =>
        /\ gameState = InitialGameState
        /\ \A field \in DOMAIN InitialGameState :
              gameState[field] = InitialGameState[field]

\* clearGame has been called while assets were being generated
C20_ClearedWhileGeneratingAssets ==
    /\ lastEvent.type = "clearGame"
    /\ cleared # None
    /\ cleared[1].assets = MaxAssets /\ cleared[1].isGenerating

----------------------------------------------------------------------------
(* Properties of cancelGeneration (SpecCancel) *)

\* C21: from any reachable state, cancelGeneration resets the session state
\* to idle wholesale: afterwards the generation status is idle, isGenerating
\* and publisher.isPublishing are false, operationType is idle, the streaming
\* flags are false and no field still shows an operation in progress.
C21_CancelResetsToIdle ==
    lastEvent.type = "cancelGeneration" =>
        /\ gameState.status = "idle"
        /\ ~gameState.isGenerating
        /\ ~gameState.publisher.isPublishing
        /\ gameState.operationType = "idle"
        /\ ~gameState.codeStream.isStreaming
        /\ ~gameState.buildingStatus.isBuilding
        /\ ~gameState.assets.isGenerating
        /\ gameState.publisher.status \in {"idle", "published", "error"}

\* the fields cancelGeneration does write are idle afterwards
C21_CancelResetsItsFields ==
    lastEvent.type = "cancelGeneration" =>
        /\ gameState.status = "idle"
        /\ ~gameState.isGenerating
        /\ gameState.statusBox.phase = "idle"
        /\ ~gameState.codeStream.isStreaming
        /\ ~gameState.buildingStatus.isBuilding
        /\ gameState.suggestions = << >>

----------------------------------------------------------------------------
(* Events of a known type whose payload is not what the type expects *)

\* a backend that also sends empty strings and objects without the fields
UnexpectedBackend ==
    [SmallBackend EXCEPT
       !.explanation = {JsStr(<< >>)},
       !.suggestions = {JsStr(<< >>), JsObject},
       !.code_chunk = {JsStr(<< >>), JsObject},
       !.command = {JsStr(<< >>)},
       !.asset_generating = @ \cup {JsStr(<< >>), JsObject},
       !.asset_completed = @ \cup {JsStr(<< >>), JsObject}]

InitUnexpected == InitReducer({UnexpectedBackend}) /\ InitServer

NextUnexpected ==
    \/ GenerateGame
    \/ EvExplanation
    \/ EvSuggestions
    \/ EvCodeChunk
    \/ EvCommand
    \/ EvAssetGenerating
    \/ EvAssetCompleted

SpecUnexpected == InitUnexpected /\ [][NextUnexpected]_vars

\* C22: an event of a known type with an empty-string payload, or with a
\* payload that lacks the fields its type expects, is applied as a no-op or a
\* minimal update and never raises.
C22_NeverRaises == raised = None

\* C22, the guarded cases: a code chunk that is empty or not a string changes
\* nothing but the operation type, and an empty or non-string suggestions,
\* explanation or command payload is applied without raising
C22_GuardedPayloadsTolerated ==
    [][/\ lastEvent'.type = "code_chunk"
       /\ ~chunkAccepted(lastEvent'.payload)
       /\ gameState' # gameState
       => gameState' = detectOperationType(gameState, "code_chunk")]_vars

\* an asset_generating event with an empty-string payload has been delivered
C22_EmptyPayloadRaised ==
    /\ raised # None
    /\ raised[1].type = "asset_generating"
    /\ raised[1].payload = JsStr(<< >>)

----------------------------------------------------------------------------
(* The publisher status along a publishing cycle *)

\* the stage of a publisher status on the line validating, preparing,
\* deploying, published; idle comes before it and error is off it
publisherStage(status) ==
    CASE status = "idle" -> 0
      [] status = "validating" -> 1
      [] status = "preparing" -> 2
      [] status = "deploying" -> 3
      [] status = "published" -> 4
      [] OTHER -> -1

\* the step is a publisher event that changed the publisher.status left by
\* the publisher event before it, with no generateGame in between
publisherMoved ==
    /\ lastEvent.type \in PublishEventTypes
    /\ lastEvent'.type \in PublishEventTypes
    /\ gameState'.publisher.status # gameState.publisher.status

\* C23: publisher.status only moves forward along validating, preparing,
\* deploying, published, or to error: no publish_status event moves it back,
\* and once published no later publisher event of the cycle changes it.
C23_PublisherStatusForward ==
    [][publisherMoved =>
          \/ gameState'.publisher.status = "error"
          \/ /\ gameState.publisher.status # "published"
             /\ publisherStage(gameState'.publisher.status)
                   > publisherStage(gameState.publisher.status)]_vars

\* C23, what the reducer does guarantee: publish_success always ends at
\* published and publish_error always ends at error
C23_TerminalEventsSetStatus ==
    /\ lastEvent.type = "publish_success" => gameState.publisher.status = "published"
    /\ lastEvent.type = "publish_error" => gameState.publisher.status = "error"

----------------------------------------------------------------------------
(* The generation status along a generation cycle *)

\* the place of a generation status in idle, thinking, generating, and the
\* two ends completed and error
statusStage(status) ==
    CASE status = "idle" -> 0
      [] status = "thinking" -> 1
      [] status = "generating" -> 2
      [] OTHER -> 3

\* the step applies an event of the stream
eventApplied ==
    /\ lastEvent'.type \in
          GameCreationEventTypes \cup PublishEventTypes \cup AssetEventTypes
             \cup {"suggestions", "code_chunk", "command", "error",
                   "stream_complete"}
    /\ gameState' # gameState

\* the step is a call of generateGame
cycleStarted == sent'.n = sent.n + 1

\* C24: the generation status never goes back within one generation cycle,
\* and the start of a new cycle by generateGame resets it to idle.
C24_StatusMonotonic ==
    [][/\ eventApplied =>
             statusStage(gameState'.status) >= statusStage(gameState.status)
       /\ cycleStarted => gameState'.status = "idle"]_vars

\* C24, what the code does at the start of a cycle: the status is thinking
C24_CycleStartsThinking ==
    lastEvent.type = "generateGame" => gameState.status = "thinking"

----------------------------------------------------------------------------
(* isGenerating at the end of a cycle *)

\* C25: once the terminal event of a cycle has been applied (code, error,
\* publish_success or publish_error), isGenerating is false, also in a cycle
\* started by generateGame that turns out to be a publish cycle.
C25_TerminalEventEndsGenerating ==
    lastEvent.type \in {"code", "error", "publish_success", "publish_error"}
        => ~gameState.isGenerating

\* C25, the game creation cycle: after code or error isGenerating is false
C25_CodeOrErrorEndsGenerating ==
    lastEvent.type \in {"code", "error"} => ~gameState.isGenerating

----------------------------------------------------------------------------
(* What changes the suggestions *)

\* a backend that sends two different suggestion lists
KeepBackend ==
    [SmallBackend EXCEPT
       !.suggestions = {JsStr(<<"-", " ", "a">>), JsStr(<<"*", " ", "b">>)}]

InitKeep == InitReducer({KeepBackend}) /\ InitServer

NextKeep ==
    \/ GenerateGame
    \/ GenerateGameRejected
    \/ CancelGeneration
    \/ ClearGame
    \/ EvSuggestions
    \/ EvError
    \/ EvCode
    \/ EvStatus
    \/ EvPublishSuccess
    \/ EvAssetSessionStart

SpecKeep == InitKeep /\ [][NextKeep]_vars

\* the step changes the suggestions
suggestionsChanged == gameState'.suggestions # gameState.suggestions

\* the operations that empty the suggestions, as the claim lists them
ClearingActions == {"error", "cancelGeneration", "clearGame"}

----------------------------------------------------------------------------
(* Asset sessions with the deferred refresh of the asset list *)

\* a backend that generates assets with or without a session id of its own,
\* and answers the refresh with nothing or with one stored asset
RefreshBackend ==
    [AssetBackend EXCEPT
       !.asset_session_start =
           { [description |-> <<"assets">>, total_assets |-> 3,
              categories |-> <<"primary_character">>, session_id |-> sid] :
             sid \in {None, Some(<<"adk_A">>)} },
       !.asset_completed =
           {CompletedPayload(f, None) : f \in {<<"a.png">>, <<"b.png">>}}]

InitRefresh == InitReducer({RefreshBackend}) /\ InitServer

NextRefresh ==
    \/ GenerateGame
    \/ EvAssetSessionStart
    \/ EvAssetCompleted
    \/ EvAssetSessionComplete
    \/ EvStreamComplete
    \/ LoadSessionAssets

SpecRefresh == InitRefresh /\ [][NextRefresh]_vars

\* s is the beginning of t
isPrefix(s, t) == Len(s) <= Len(t) /\ SubSeq(t, 1, Len(s)) = s

\* the step is an asset_completed or asset_session_complete event, or the
\* completion of a deferred refresh
sessionStep ==
    lastEvent'.type \in
        {"asset_completed", "asset_session_complete", "loadSessionAssets"}

\* C27: within one asset generation session the asset list only grows by
\* appending (every file already listed stays, at the same position) and
\* progress.generated never decreases, for every interleaving of
\* asset_completed and asset_session_complete events with completions of the
\* deferred refresh.
C27_AssetsOnlyGrow ==
    [][sessionStep =>
          /\ isPrefix(filenames(gameState.assets.assets),
                      filenames(gameState'.assets.assets))
          /\ gameState'.assets.progress.total_generated
                >= gameState.assets.progress.total_generated]_vars

\* C27, the asset_completed event alone: it appends one record and adds one
C27_CompletedAppendsOne ==
    [][lastEvent'.type = "asset_completed" =>
          /\ isPrefix(gameState.assets.assets, gameState'.assets.assets)
          /\ Len(gameState'.assets.assets) = Len(gameState.assets.assets) + 1
          /\ gameState'.assets.progress.total_generated
                = gameState.assets.progress.total_generated + 1]_vars

\* the step schedules one deferred refresh
refreshScheduled == Len(pendingRefresh') = Len(pendingRefresh) + 1

refreshSessionId ==
    sessionIdToUse(None, pendingRefresh'[Len(pendingRefresh')])

\* C29: when a backend session id has been captured from an asset event of
\* the current stream, the deferred refresh scheduled by asset_session_complete
\* or stream_complete of that stream requests the assets under the captured
\* id, and under the frontend session id only when none was captured.
C29_RefreshUsesCapturedId ==
    [][refreshScheduled =>
          refreshSessionId = IF realSessionId' # None THEN realSessionId'[1]
                             ELSE sessionId]_vars

\* C29, what the refresh does use: the id captured when generateGame was
\* called, whatever the stream has captured since
C29_RefreshUsesIdOfCallTime ==
    [][refreshScheduled =>
          refreshSessionId = IF closureSessionId # None THEN closureSessionId[1]
                             ELSE sessionId]_vars

----------------------------------------------------------------------------
(* The backoff delay of the retry executor (SpecRetry) *)

\* the error says nothing of a quota
nonQuota(error) == error.match = None /\ ~error.mentionsQuota

zeroDuration(error) == error.match # None /\ quotedDuration(error) = 0

\* C31: a quota error whose parsed duration is zero is given the 60-second
\* default wait, so with a positive initialDelay every wait between two
\* attempts is strictly positive and the executor never busy-loops.
C31_ZeroDurationWaitsDefault ==
    /\ \A i \in 1..Len(waited) : waited[i] > 0
    /\ rpc = "sleeping" /\ cfg.impl = "utils.js"
          /\ zeroDuration(calls[Len(calls)].value) =>
             waited[Len(waited)] = 60 * 1000

\* both zero durations, '00:00:00' and '0 seconds', have been waited for
C31_BothZeroFormatsWaited ==
    /\ cfg.impl = "utils.js"
    /\ rpc = "sleeping"
    /\ Len(calls) = 2
    /\ calls[1].value.match # None /\ calls[1].value.match[1].h = Some(0)
    /\ zeroDuration(calls[1].value)
    /\ calls[2].value.match # None /\ calls[2].value.match[1].sec = Some(0)
    /\ waited = <<60 * 1000, 60 * 1000>>

----------------------------------------------------------------------------
(* The rolling log of the operations: logOperation and the retry waits *)

\* logOperation(toolName, operationId, status, details, workDir)
LogOperation ==
    /\ \E id \in OperationIds :
          /\ nextEntry(opLog[id]) <= MaxLogEntries
          /\ opLog' = [opLog EXCEPT ![id] = logOperation(opLog[id])]
    /\ UNCHANGED <<clientVars, retryVars, toolVars, disk, asset3d>>

\* retryWithBackoff records a wait: the push on the list of its operation
RecordWait ==
    /\ \E id \in OperationIds :
          /\ nextEntry(opLog[id]) <= MaxLogEntries
          /\ opLog' = [opLog EXCEPT
                         ![id] = recordWait(opLog[id], TRUE,
                                            nextEntry(opLog[id]))]
    /\ UNCHANGED <<clientVars, retryVars, toolVars, disk, asset3d>>

InitLog == InitReducer({SmallBackend}) /\ InitServer

NextLog == LogOperation \/ RecordWait

SpecLog == InitLog /\ [][NextLog]_vars

\* C32: for every operation identifier the rolling operation log holds at
\* most 100 entries after any sequence of logOperation calls and retry-wait
\* recordings, the oldest entries being evicted first.
C32_LogAtMostHundred ==
    \A id \in OperationIds :
        opLog[id] # None =>
            /\ Len(opLog[id][1]) <= LogCap
            /\ \A i \in 1..(Len(opLog[id][1]) - 1) :
                  opLog[id][1][i + 1] = opLog[id][1][i] + 1

\* C32, the order of eviction: a log always holds the latest entries, in the
\* order in which they were pushed
C32_OldestEvictedFirst ==
    \A id \in OperationIds :
        opLog[id] # None =>
            \A i \in 1..(Len(opLog[id][1]) - 1) :
                opLog[id][1][i + 1] = opLog[id][1][i] + 1

----------------------------------------------------------------------------
(* What detection can complete with (SpecDetect) *)

ConcreteSpaceTypes == {INSTANTMESH, HUNYUAN3D, HUNYUAN3D_MINI_TURBO}

\* C33: client initialization either fails or yields one of the three
\* concrete backend kinds: for no configuration, a manual override included,
\* does it complete with the space type 'unknown'.
C33_NeverCompletesUnknown ==
    detection # None /\ detection[1].result[1].kind = "returned" =>
        detection[1].result[1].value \in ConcreteSpaceTypes

\* C33, automatic detection: when MODEL_SPACE_TYPE does not say 'unknown',
\* detection fails or yields a concrete kind
C33_AutomaticDetectionIsConcrete ==
    /\ detection # None
    /\ detection[1].result[1].kind = "returned"
    /\ ~(/\ detection[1].manual # None
         /\ toLowerCase(detection[1].manual[1]) = UNKNOWN)
    => detection[1].result[1].value \in ConcreteSpaceTypes

----------------------------------------------------------------------------
(* Two pipeline instances writing into the asset directory *)

\* a generate_3d_asset call starts its background task
StartInstance ==
    /\ \E i \in Instances, spaceType \in {INSTANTMESH, HUNYUAN3D} :
          /\ disk.writers[i] = None
          /\ disk' = [disk EXCEPT
                        !.writers[i] = Some([spaceType |-> spaceType, n |-> 0])]
    /\ UNCHANGED <<clientVars, retryVars, toolVars, opLog, asset3d>>

\* an instance writes its next file
WriteFile ==
    /\ \E i \in Instances :
          /\ disk.writers[i] # None
          /\ LET w == disk.writers[i][1]
                 writes == writesOf(w.spaceType)
             IN /\ w.n < Len(writes)
                /\ disk' = [disk EXCEPT
                              !.writers[i] = Some([w EXCEPT !.n = w.n + 1]),
                              !.written = @ \cup
                                  {[path |-> pathOf(writes[w.n + 1], i, w.n + 1,
                                                    disk.now),
                                    instance |-> i]}]
    /\ UNCHANGED <<clientVars, retryVars, toolVars, opLog, asset3d>>

\* Date.now() moves on by a millisecond
TickMs ==
    /\ disk.now < MaxMs
    /\ disk' = [disk EXCEPT !.now = disk.now + 1]
    /\ UNCHANGED <<clientVars, retryVars, toolVars, opLog, asset3d>>

InitFiles == InitReducer({SmallBackend}) /\ InitServer

NextFiles == StartInstance \/ WriteFile \/ TickMs

SpecFiles == InitFiles /\ [][NextFiles]_vars

\* C34: every file a pipeline instance writes into the shared asset directory
\* has a name built from a timestamp and a random suffix, so two instances
\* running concurrently never write to the same path, even when they write
\* within the same millisecond.
C34_NoSharedPath ==
    /\ \A w \in disk.written : w.path.uniqueId # None
    /\ \A v, w \in disk.written : v.path = w.path => v.instance = w.instance

\* C34, the files saved by saveFileFromData: their names carry the random
\* suffix, and no two instances write the same one
C34_SavedFilesNotShared ==
    \A v, w \in disk.written :
        v.path.uniqueId # None /\ v.path = w.path => v.instance = w.instance

----------------------------------------------------------------------------
(* The two retry executors side by side (SpecRetry) *)

\* the waits an executor applies after the failures errs, one after another,
\* starting with the delay d
RECURSIVE waitsFrom(_, _, _)
waitsFrom(impl, errs, d) ==
    IF errs = << >> THEN << >>
    ELSE <<sleepTime(impl, Head(errs), d)>>
            \o waitsFrom(impl, Tail(errs),
                         delayAfterSleep(impl, Head(errs), d))

\* the errors of the failed attempts that were followed by a wait
waitedErrors == [i \in 1..Len(waited) |-> calls[i].value]

\* C35: the two retry executors (index.js, and utils.js with
\* calculateWaitTime) are equivalent: for the same sequence of operation
\* outcomes and error messages they make the same number of attempts, wait the
\* same time before each retry, and end with the same result or error.
C35_ExecutorsEquivalent ==
    /\ rpc = "loop" => loopCondition(retries, cfg.maxRetries)
    /\ waitsFrom("utils.js", waitedErrors, cfg.initialDelay)
          = waitsFrom("index.js", waitedErrors, cfg.initialDelay)

\* C35, what the two executors share: the attempts and the outcome (the loop
\* condition of utils.js never stops a run that index.js would go on with),
\* and the waits when no attempt fails with a quota error
C35_SameAttemptsAndBackoff ==
    /\ rpc = "loop" => loopCondition(retries, cfg.maxRetries)
    /\ waited = waitsFrom(cfg.impl, waitedErrors, cfg.initialDelay)
    /\ (\A i \in 1..Len(waited) : nonQuota(calls[i].value)) =>
          waitsFrom("utils.js", waitedErrors, cfg.initialDelay)
             = waitsFrom("index.js", waitedErrors, cfg.initialDelay)

----------------------------------------------------------------------------
(* isPublishing and the publisher status *)

\* isPublishing says what the status says
publishingAgrees(state) ==
    state.publisher.isPublishing
        <=> state.publisher.status \in {"validating", "preparing", "deploying"}

\* C36: in every reachable state publisher.isPublishing is true exactly when
\* publisher.status is one of validating, preparing, deploying; this also
\* holds right after generateGame starts a new cycle and after
\* cancelGeneration.
C36_PublishingIffInProgress == publishingAgrees(gameState)

\* C36, the publisher events and the cancel: a publisher event leaves the two
\* fields in agreement, and cancelGeneration keeps them as they were
C36_PublisherEventsAgree ==
    [][/\ lastEvent'.type \in {"publish_status", "publish_success",
                               "publish_error"}
             => publishingAgrees(gameState')
       /\ lastEvent'.type = "cancelGeneration"
             => gameState'.publisher = gameState.publisher]_vars

----------------------------------------------------------------------------
(* The game creator agent after a cycle has ended (SpecCreationFair) *)

InitCreation == InitReducer({SmallBackend}) /\ InitServer

\* a game creation cycle with its suggestions, and the agent panel's effect
NextCreation ==
    \/ GenerateGame
    \/ EvStatus
    \/ EvSuggestions
    \/ EvCode
    \/ AgentFlowEffect

SpecCreation == InitCreation /\ [][NextCreation]_vars

\* React runs the effect after every render whose dependencies changed
SpecCreationFair == SpecCreation /\ WF_vars(AgentFlowEffect)

\* the cycle has ended with a code event and no new cycle has started
endedWithCode(state) ==
    /\ state.code # None
    /\ ~state.isGenerating
    /\ state.status = "completed"

\* C37: after a generation cycle has ended with a code event, the gameCreator
\* agent eventually shows status completed and does not stay active, whether
\* the suggestions event arrived before the code event, after it or not at all.
C37_CreatorEventuallyCompleted ==
    endedWithCode(gameState)
        ~> (gameState.agents.gameCreator.status = "completed"
               \/ ~endedWithCode(gameState))

\* the one order in which the agent does end completed: the suggestions event
\* arrived, and the effect ran on it, while the cycle was still generating
C37_CompletedOnlyWhileGenerating ==
    [][/\ endedWithCode(gameState)
       /\ gameState.agents.gameCreator.status # "completed"
       => gameState'.agents.gameCreator.status # "completed"]_vars

----------------------------------------------------------------------------
(* The operation log of generate_3d_asset (SpecOperationFair) *)

\* the entry that ends the background task: logOperation(.., 'COMPLETED', ..)
\* at the end of the try block, logDetailedError's logOperation(.., 'ERROR',
\* ..) in its catch block
finalEntry(p) ==
    IF p.pc = "done" THEN <<"COMPLETED">>
    ELSE IF p.pc = "failed" THEN <<"ERROR">>
    ELSE << >>

\* the statuses the background task logs from the return of a backend call to
\* its next await of a backend, or to its end
entriesAfterReturn(p, result) ==
    (IF p.step = "textToImage" /\ result # "none"
     THEN <<"PROCESSING", "PROCESSING">> ELSE << >>)
        \o finalEntry(afterReturn(p, result))

\* the statuses logged after the operation of a step has thrown: the WAITING
\* entry of retryWithBackoff, or the entry of the catch block of the task
entriesAfterThrow(p, kind) ==
    IF afterThrow(p, kind).pc = "sleeping" THEN <<"WAITING">>
    ELSE finalEntry(afterThrow(p, kind))

\* the entries of the background task go to the list of its operation; one
\* operation logs fewer than a hundred entries, so none is evicted
logged(entries) ==
    [asset3d EXCEPT !.operationUpdates[asset3d.background] = @ \o entries]

\* the CallTool handler of generate_3d_asset: STARTED is logged, the prompt is
\* parsed, the background task is launched and the initial response returned;
\* a prompt that does not parse ends in the outer catch block
Generate3dAsset ==
    /\ pipe.pc \in {"idle", "done", "failed"}
    /\ asset3d.operationCounter < MaxOperations
    /\ \E validPrompt \in BOOLEAN, spaceType \in PipelineSpaceTypes :
          LET operationId == asset3d.operationCounter + 1
          IN /\ asset3d' =
                   [operationCounter |-> operationId,
                    background |-> IF validPrompt THEN operationId
                                   ELSE asset3d.background,
                    operationUpdates |->
                        [asset3d.operationUpdates EXCEPT
                            ![operationId] = <<"STARTED">>],
                    responses |->
                        [asset3d.responses EXCEPT
                            ![operationId] =
                                Some(IF validPrompt THEN "initial"
                                     ELSE "error")]]
             /\ pipe' = IF validPrompt
                        THEN invoke([PipeIdle EXCEPT !.spaceType = spaceType],
                                    "textToImage")
                        ELSE pipe
    /\ UNCHANGED <<clientVars, retryVars, detectVars, rateVars, stepsCall,
                   opLog, disk>>

\* the backend answers the step in flight
BackendReturns ==
    /\ pipe.pc = "calling"
    /\ asset3d.background # 0
    /\ \E result \in StepResults :
          /\ pipe' = afterReturn(pipe, result)
          /\ asset3d' = logged(entriesAfterReturn(pipe, result))
    /\ UNCHANGED <<clientVars, retryVars, detectVars, rateVars, stepsCall,
                   opLog, disk>>

\* the call of the step in flight fails
BackendThrows ==
    /\ pipe.pc = "calling"
    /\ asset3d.background # 0
    /\ \E kind \in operationErrors(pipe.step, pipe.spaceType) :
          /\ pipe' = afterThrow(pipe, kind)
          /\ asset3d' = logged(entriesAfterThrow(pipe, kind))
    /\ UNCHANGED <<clientVars, retryVars, detectVars, rateVars, stepsCall,
                   opLog, disk>>

\* the sleep of retryWithBackoff ends
RetrySleepEnds ==
    /\ asset3d.background # 0
    /\ WakePipeline

InitOperation == InitReducer({SmallBackend}) /\ InitServer

NextOperation ==
    \/ Generate3dAsset
    \/ BackendReturns
    \/ BackendThrows
    \/ RetrySleepEnds

SpecOperation == InitOperation /\ [][NextOperation]_vars

\* every backend call eventually returns or fails, and every timer fires
SpecOperationFair ==
    /\ SpecOperation
    /\ WF_vars(BackendReturns \/ BackendThrows)
    /\ WF_vars(RetrySleepEnds)

\* the number of final entries in the log of operation n
RECURSIVE finals(_)
finals(updates) ==
    IF updates = << >> THEN 0
    ELSE (IF Head(updates) \in {"COMPLETED", "ERROR"} THEN 1 ELSE 0)
            + finals(Tail(updates))

\* C38: every started 3D generation operation eventually records exactly one
\* final entry, COMPLETED or ERROR, in its operation log, given that every
\* backend call eventually returns or fails; by then the tool call has
\* returned its initial response with the operation id.
C38_EveryOperationEndsFinal ==
    \A n \in 1..MaxOperations :
        (asset3d.operationUpdates[n] # << >>)
            ~> (/\ finals(asset3d.operationUpdates[n]) = 1
                /\ asset3d.responses[n] = Some("initial"))

\* an operation whose background task was launched does end with one final
\* entry, which is then its last entry
C38_LaunchedOperationEndsFinal ==
    \A n \in 1..MaxOperations :
        (asset3d.responses[n] = Some("initial"))
            ~> (/\ finals(asset3d.operationUpdates[n]) = 1
                /\ asset3d.operationUpdates[n][Len(asset3d.operationUpdates[n])]
                      \in {"COMPLETED", "ERROR"})

\* no operation has two final entries, and only a launched one has any
C38_AtMostOneFinal ==
    \A n \in 1..MaxOperations :
        /\ finals(asset3d.operationUpdates[n]) <= 1
        /\ finals(asset3d.operationUpdates[n]) = 1
              => asset3d.responses[n] = Some("initial")


----------------------------------------------------------------------------
(* Publishing a game that has been generated (SpecGame) *)

InitGame == InitReducer({SmallBackend}) /\ InitServer

\* a game is generated with its code stream, suggestions and assets, and
\* published
NextGame ==
    \/ GenerateGame
    \/ EvCodeChunk
    \/ EvCode
    \/ EvSuggestions
    \/ EvAssetCompleted
    \/ EvPublishStatus
    \/ EvPublishSuccess
    \/ EvPublishError
    \/ EvPublishMessage

SpecGame == InitGame /\ [][NextGame]_vars

\* the game: the generated code, the streamed content, the suggestions and
\* the asset state
gameOf(state) ==
    [code |-> state.code, content |-> state.codeStream.content,
     suggestions |-> state.suggestions, assets |-> state.assets]

\* C39: publisher events (publish_status, publish_success, publish_error,
\* publish_message) and the start of a request leave the generated code, the
\* code-stream content, the suggestions and the asset state unchanged.
C39_PublishingKeepsGame ==
    [][lastEvent'.type \in PublishEventTypes \cup {"generateGame"}
          => gameOf(gameState') = gameOf(gameState)]_vars

\* a game with code, streamed content, suggestions and an asset has been
\* published, or its publication has failed
C39_GamePublished ==
    /\ lastEvent.type \in {"publish_success", "publish_error"}
    /\ prevOp = "publishing"
    /\ gameState.code # None
    /\ gameState.codeStream.content # << >>
    /\ gameState.suggestions # << >>
    /\ gameState.assets.assets # << >>


----------------------------------------------------------------------------
(* A cancelled request whose stream is still delivered (SpecAbort) *)

InitAbort == InitReducer({SmallBackend}) /\ InitServer

\* cancelGeneration leaves handleEvent and the pending request as they are:
\* events and the end of the request can follow it
NextAbort ==
    \/ GenerateGame
    \/ CancelGeneration
    \/ EvStatus
    \/ EvCodeChunk
    \/ EvCode
    \/ EvError
    \/ GenerateGameResolved
    \/ GenerateGameRejected

SpecAbort == InitAbort /\ [][NextAbort]_vars

\* what cancelGeneration leaves: status idle, not generating
cancelledState(state) == state.status = "idle" /\ ~state.isGenerating

\* C40: after cancelGeneration, generationStatus stays idle and isGenerating
\* stays false until the next generateGame call, also when events of the
\* cancelled stream, or the rejection of its request, are delivered after it.
C40_CancelledStaysIdle ==
    [][/\ lastEvent.type = "cancelGeneration"
       /\ cancelledState(gameState)
       /\ lastEvent'.type # "generateGame"
       => cancelledState(gameState')]_vars

\* what does keep the cancelled state: the events that touch neither field,
\* and the request that resolves
C40_ChunksAndResolveKeepIdle ==
    [][/\ lastEvent.type = "cancelGeneration"
       /\ lastEvent'.type \in {"code_chunk", "resolved", "cancelGeneration"}
       => cancelledState(gameState')]_vars

============================================================================
